---- MODULE Spec2Model ----
(***************************************************************************)
(* paleo-bench: the concurrent evaluation scheduler (runner.run_benchmark), *)
(* the driver (__main__.main) and the result reconciliation and persistence *)
(* (results.write_results and friends), as one state machine.               *)
(*                                                                          *)
(* Identity fields (model label, group name, image URL, sample label,       *)
(* ground-truth path) are TLA+ strings.  Free text (model output, error     *)
(* text, ground truth) is a sequence of characters, so that stripping,      *)
(* lower-casing, normalisation and substring search are computed.           *)
(***************************************************************************)
EXTENDS Integers, Sequences, FiniteSets, TLC

\* Python's None for an identity field / a dict lookup that finds nothing.
None == "<None>"
\* Python's None where a text (a character sequence) may stand.
NoneText == <<"<None>">>
\* Python's None where a dict or an object may stand.
NoneObj == [is_none |-> TRUE]

-----------------------------------------------------------------------------
(* Text helpers: what the str methods used by the code do.                  *)

IsNoneText(t) == t = NoneText

\* str.lower() on the characters the model uses.
Lower(c) ==
    CASE c = "T" -> "t"
      [] c = "E" -> "e"
      [] c = "R" -> "r"
      [] OTHER -> c

LowerText(t) == [i \in 1..Len(t) |-> Lower(t[i])]

\* Characters str.strip() removes.
IsSpace(c) == c \in {" ", "\t", "\n", "\r"}

RECURSIVE LStrip(_)
LStrip(t) == IF t # <<>> /\ IsSpace(Head(t)) THEN LStrip(Tail(t)) ELSE t

RECURSIVE RStrip(_)
RStrip(t) ==
    IF t # <<>> /\ IsSpace(t[Len(t)]) THEN RStrip(SubSeq(t, 1, Len(t) - 1)) ELSE t

Strip(t) == RStrip(LStrip(t))

\* `marker in text`
Contains(text, marker) ==
    \E i \in 1..(Len(text) - Len(marker) + 1) :
        SubSeq(text, i, i + Len(marker) - 1) = marker

\* unicodedata.category(ch) == "Mn": the combining acute accent.
IsMark(c) == c = "COMBINING_ACUTE"

\* unicodedata.category(ch).startswith("P")
IsPunct(c) == c \in {".", ":", ",", "-", "!"}

\* unicodedata.normalize("NFD", ch): the precomposed letter decomposes.
Decompose(c) == IF c = "E_ACUTE" THEN <<"e", "COMBINING_ACUTE">> ELSE <<c>>

RECURSIVE NFD(_)
NFD(t) == IF t = <<>> THEN <<>> ELSE Decompose(Head(t)) \o NFD(Tail(t))

NotMark(c) == ~IsMark(c)
NotPunct(c) == ~IsPunct(c)

\* [^\S\r\n]: whitespace other than the line ends.
IsBlankChar(c) == c \in {" ", "\t"}

RECURSIVE CollapseBlanks(_)
\* re.sub(r"[^\S\r\n]+", " ", t)
CollapseBlanks(t) ==
    IF t = <<>> THEN <<>>
    ELSE IF IsBlankChar(Head(t))
         THEN IF Tail(t) # <<>> /\ IsBlankChar(Head(Tail(t)))
              THEN CollapseBlanks(Tail(t))
              ELSE <<" ">> \o CollapseBlanks(Tail(t))
         ELSE <<Head(t)>> \o CollapseBlanks(Tail(t))

RECURSIVE BlanksThenLineEnd(_)
\* the lookahead of r"[ \t]+(?=\r?\n|$)" from a blank on
BlanksThenLineEnd(t) ==
    IF t = <<>> THEN TRUE
    ELSE IF Head(t) \in {" ", "\t"} THEN BlanksThenLineEnd(Tail(t))
    ELSE IF Head(t) = "\n" THEN TRUE
    ELSE IF Head(t) = "\r" THEN Tail(t) # <<>> /\ Head(Tail(t)) = "\n"
    ELSE FALSE

RECURSIVE DropTrailingBlanks(_)
\* re.sub(r"[ \t]+(?=\r?\n|$)", "", t)
DropTrailingBlanks(t) ==
    IF t = <<>> THEN <<>>
    ELSE IF Head(t) \in {" ", "\t"} /\ BlanksThenLineEnd(t)
         THEN DropTrailingBlanks(Tail(t))
         ELSE <<Head(t)>> \o DropTrailingBlanks(Tail(t))

\* metrics.normalize_for_comparison; the closing NFC finds nothing to compose,
\* every combining mark being gone.
normalize_for_comparison(text) ==
    LET no_diacritics == SelectSeq(NFD(text), NotMark)
        no_punctuation == SelectSeq(no_diacritics, NotPunct)
        normalized_whitespace == CollapseBlanks(no_punctuation)
    IN  DropTrailingBlanks(normalized_whitespace)

-----------------------------------------------------------------------------
(* Configuration (config.BenchConfig) and the files around it.              *)

UrlA == "https://example.org/iiif/a/info.json"
UrlB == "https://example.org/iiif/b/info.json"

\* config.SampleConfig; sample B carries no label (the default "").
SampleA == [image_url |-> UrlA, ground_truth |-> "gtA.txt", label |-> "a"]
SampleB == [image_url |-> UrlB, ground_truth |-> "gtB.txt", label |-> ""]

\* config.ModelConfig
ModelM1 == [id |-> "provider/m1", label |-> "m1"]
ModelM2 == [id |-> "provider/m2", label |-> "m2"]
ModelM0 == [id |-> "provider/m0", label |-> "m0"]

\* The shapes of configuration load_config accepts that the model runs:
\* two groups sharing a sample, two models on one sample, and one sample
\* listed twice (load_config checks model labels for duplicates, not samples).
Layouts ==
    { [groups |-> << [name |-> "g1", samples |-> <<SampleA, SampleB>>],
                     [name |-> "g2", samples |-> <<SampleA>>] >>,
       models |-> <<ModelM1>>],
      [groups |-> << [name |-> "g1", samples |-> <<SampleA>>] >>,
       models |-> <<ModelM1, ModelM2>>],
      [groups |-> << [name |-> "g1", samples |-> <<SampleA, SampleA>>] >>,
       models |-> <<ModelM1>>] }

\* The largest max_concurrency the model configures; load_config takes the
\* number as the file gives it, 0 included.
MaxConcurrency == 2

BenchConfigs ==
    { [groups |-> l.groups, models |-> l.models, max_concurrency |-> c] :
        l \in Layouts, c \in 0..MaxConcurrency }

\* The ground-truth files on disk: path -> content.
GroundTruthFiles ==
    [p \in {"gtA.txt", "gtB.txt"} |->
        IF p = "gtA.txt" THEN <<"o", "k">> ELSE <<"o", "k", ".", " ">>]

\* What else a path may name there: "." is the directory itself, which
\* exists and cannot be read as text; "gone.txt" names nothing.
Directories == {"."}

\* Path.exists()
Exists(path) == path \in (DOMAIN GroundTruthFiles) \cup Directories

\* Path.read_text(encoding="utf-8") raises (IsADirectoryError, ...)
ReadRaises(path) == path \notin DOMAIN GroundTruthFiles

\* Path.read_text(encoding="utf-8"): the text (nothing where it raises)
read_text(path) == IF ReadRaises(path) THEN NoneText ELSE GroundTruthFiles[path]

-----------------------------------------------------------------------------
(* Identity keys (runner.make_result_key, results._row_key).                *)

\* str(x)
Str(x) == IF x = None THEN "None" ELSE x

\* `not x` for an optional string
Falsy(x) == x = None \/ x = ""

\* The value _row_key returns for a row that yields no key.
NoKey == <<>>

make_result_key(group_name, sample_label, image_url, ground_truth_path, model_id) ==
    << Str(model_id),
       Str(group_name),
       Str(image_url),
       Str(IF Falsy(sample_label) THEN "" ELSE sample_label),
       Str(ground_truth_path) >>

sample_result_key(sr) ==
    make_result_key(sr.group_name, sr.sample_label, sr.image_url,
                    sr.ground_truth_path, sr.model_id)

\* A persisted row is a record of all the fields the code reads with
\* row.get(...); a field the JSON lacks or holds null for is None.
_row_key(row) ==
    IF Falsy(row.model) \/ Falsy(row.group) \/ Falsy(row.image)
       \/ Falsy(row.ground_truth_file)
    THEN NoKey
    ELSE make_result_key(Str(row.group),
                         Str(IF Falsy(row.label) THEN "" ELSE row.label),
                         Str(row.image), Str(row.ground_truth_file),
                         Str(row.model))

-----------------------------------------------------------------------------
(* Completed rows and the skip-set (results.completed_result_keys).         *)

ErrorMarkers ==
    { <<"e", "r", "r", "o", "r", ":">>,
      <<"b", "a", "d", "r", "e", "q", "u", "e", "s", "t", "e", "r", "r", "o", "r">>,
      <<"a", "n", "t", "h", "r", "o", "p", "i", "c", "e", "x", "c", "e", "p", "t", "i", "o", "n">>,
      <<"r", "a", "t", "e", " ", "l", "i", "m", "i", "t">>,
      <<"t", "i", "m", "e", "o", "u", "t">>,
      <<"t", "r", "a", "c", "e", "b", "a", "c", "k">> }

_looks_like_error_text(value) ==
    IF IsNoneText(value) THEN FALSE
    ELSE LET text == LowerText(Strip(value))
         IN  IF text = <<>> THEN FALSE
             ELSE \E marker \in ErrorMarkers : Contains(text, marker)

\* A completed-row test that looks at the error field only.
IsCompletedRowByErrorOnly(row) == IsNoneText(row.error) \/ Strip(row.error) = <<>>

_is_completed_row(row) ==
    IF ~IsNoneText(row.error) /\ Strip(row.error) # <<>> THEN FALSE
    ELSE IF IsNoneText(row.model_output) \/ Strip(row.model_output) = <<>> THEN FALSE
    ELSE IF _looks_like_error_text(row.model_output) THEN FALSE
    ELSE TRUE

\* model_labels: a set of labels; the empty set (or None) filters nothing.
completed_result_keys(data, model_labels) ==
    { _row_key(data.results[i]) : i \in
        { j \in 1..Len(data.results) :
            /\ _row_key(data.results[j]) # NoKey
            /\ ~(model_labels # {} /\ _row_key(data.results[j])[1] \notin model_labels)
            /\ _is_completed_row(data.results[j]) } }

-----------------------------------------------------------------------------
(* Metrics (metrics.compute_metrics), as far as the scheduler needs them:   *)
(* a metrics block exists or it does not.                                   *)

compute_metrics(ground_truth, prediction) == [is_none |-> FALSE]

-----------------------------------------------------------------------------
(* Summaries (metrics.aggregate_metrics, runner.recompute_summaries,        *)
(* results._recompute_model_summaries, _recompute_group_summaries).  A dict *)
(* is a function on its keys; the empty dict is the empty function.         *)

EmptyDict == <<>>

\* The mean, median, minimum and maximum of every metric over the blocks;
\* the blocks of the model are all alike, so each of them is the block's own
\* value.  No block: the empty dict.
aggregate_metrics(scores) == IF scores = <<>> THEN EmptyDict ELSE scores[1]

RECURSIVE SumTo(_, _)
\* sum(...) over nums[1..n]
SumTo(nums, n) == IF n = 0 THEN 0 ELSE nums[n] + SumTo(nums, n - 1)

Sum(nums) == SumTo(nums, Len(nums))

\* runner.recompute_summaries, per model: over the outcomes of the model.
ModelSummaryOfOutcomes(model_results) ==
    LET with_metrics == SelectSeq(model_results, LAMBDA r : r.metrics # NoneObj)
        model_scores == [i \in 1..Len(with_metrics) |-> with_metrics[i].metrics]
    IN  [ aggregate |-> aggregate_metrics(model_scores),
          samples_evaluated |-> Len(model_scores),
          samples_failed |->
              Len(SelectSeq(model_results, LAMBDA r : ~IsNoneText(r.error))),
          total_input_tokens |->
              Sum([i \in 1..Len(model_results) |-> model_results[i].input_tokens]),
          total_output_tokens |->
              Sum([i \in 1..Len(model_results) |-> model_results[i].output_tokens]),
          total_tokens |->
              Sum([i \in 1..Len(model_results) |-> model_results[i].total_tokens]) ]

\* runner.recompute_summaries, per (model, group).
GroupSummaryOfOutcomes(group_results) ==
    LET with_metrics == SelectSeq(group_results, LAMBDA r : r.metrics # NoneObj)
        group_scores == [i \in 1..Len(with_metrics) |-> with_metrics[i].metrics]
    IN  [ aggregate |-> aggregate_metrics(group_scores),
          total_input_tokens |->
              Sum([i \in 1..Len(group_results) |-> group_results[i].input_tokens]),
          total_output_tokens |->
              Sum([i \in 1..Len(group_results) |-> group_results[i].output_tokens]),
          total_tokens |->
              Sum([i \in 1..Len(group_results) |-> group_results[i].total_tokens]) ]

\* runner.recompute_summaries: both summaries anew from the outcomes, for the
\* configured models and groups.
recompute_summaries(result) ==
    LET labels == {result.config.models[i].label : i \in 1..Len(result.config.models)}
        names == {result.config.groups[i].name : i \in 1..Len(result.config.groups)}
        OfModel(label) ==
            SelectSeq(result.sample_results, LAMBDA r : r.model_id = label)
        OfGroup(label, name) ==
            SelectSeq(result.sample_results,
                      LAMBDA r : r.model_id = label /\ r.group_name = name)
        Scored(label) ==
            {name \in names :
                \E i \in 1..Len(OfGroup(label, name)) :
                    OfGroup(label, name)[i].metrics # NoneObj}
    IN  [ result EXCEPT
            !.model_summaries =
                [label \in labels |-> ModelSummaryOfOutcomes(OfModel(label))],
            !.group_summaries =
                [label \in labels |->
                    [name \in Scored(label) |->
                        GroupSummaryOfOutcomes(OfGroup(label, name))]] ]

\* a row counted as failed because it has no metrics block
HasNoMetrics(row) == row.metrics = NoneObj

\* `isinstance(error, str) and error.strip()`
HasError(row) == ~IsNoneText(row.error) /\ Strip(row.error) # <<>>

\* _metric_scores_from_row(row) is not None
HasMetrics(row) == row.metrics # NoneObj

\* results._recompute_model_summaries: from the rows of a document, for the
\* given labels and every model a row names.
_recompute_model_summaries(rows, model_labels) ==
    LET named == {rows[i].model : i \in {j \in 1..Len(rows) : rows[j].model # None}}
    IN  [ model_id \in model_labels \cup named |->
            LET of_model == SelectSeq(rows, LAMBDA row : row.model = model_id)
                scores == SelectSeq(of_model, HasMetrics)
                input_tokens ==
                    Sum([i \in 1..Len(of_model) |-> of_model[i].response_metadata.input_tokens])
                output_tokens ==
                    Sum([i \in 1..Len(of_model) |-> of_model[i].response_metadata.output_tokens])
            IN  [ aggregate |->
                      aggregate_metrics([i \in 1..Len(scores) |-> scores[i].metrics]),
                  samples_evaluated |-> Len(scores),
                  samples_failed |-> Len(SelectSeq(of_model, HasError)),
                  total_input_tokens |-> input_tokens,
                  total_output_tokens |-> output_tokens,
                  total_tokens |-> input_tokens + output_tokens ] ]

\* results._recompute_group_summaries: from the rows of a document.
_recompute_group_summaries(rows) ==
    LET both == {j \in 1..Len(rows) : rows[j].model # None /\ rows[j].group # None}
        models == {rows[i].model : i \in both}
        Scored(model_id) ==
            {rows[i].group : i \in {j \in both : rows[j].model = model_id
                                                  /\ HasMetrics(rows[j])}}
    IN  [ model_id \in models |->
            [ group_name \in Scored(model_id) |->
                LET of_group ==
                        SelectSeq(rows, LAMBDA row : row.model = model_id
                                                     /\ row.group = group_name)
                    scores == SelectSeq(of_group, HasMetrics)
                    input_tokens ==
                        Sum([i \in 1..Len(of_group) |->
                                of_group[i].response_metadata.input_tokens])
                    output_tokens ==
                        Sum([i \in 1..Len(of_group) |->
                                of_group[i].response_metadata.output_tokens])
                IN  [ aggregate |->
                          aggregate_metrics([i \in 1..Len(scores) |-> scores[i].metrics]),
                      total_input_tokens |-> input_tokens,
                      total_output_tokens |-> output_tokens,
                      total_tokens |-> input_tokens + output_tokens ] ] ]

\* dict(old).update(new)
DictUpdate(old, new) ==
    [k \in DOMAIN old \cup DOMAIN new |-> IF k \in DOMAIN new THEN new[k] ELSE old[k]]

-----------------------------------------------------------------------------
(* The persisted document (results._build_json, _merge_existing_results).   *)

\* One row of "results" from one SampleResult.
ResultEntry(sr) ==
    [ group |-> sr.group_name,
      label |-> sr.sample_label,
      image |-> sr.image_url,
      ground_truth_file |-> sr.ground_truth_path,
      ground_truth_text |-> sr.ground_truth_text,
      model |-> sr.model_id,
      model_output |-> sr.model_output,
      error |-> sr.error,
      metrics |-> sr.metrics,
      response_metadata |-> [ input_tokens |-> sr.input_tokens,
                              output_tokens |-> sr.output_tokens ] ]

_build_json(result) ==
    [ benchmark |->
        [ timestamp |-> result.timestamp,
          total_duration_seconds |-> result.total_duration_seconds,
          config |->
            [ models |-> [i \in 1..Len(result.config.models) |->
                            [label |-> result.config.models[i].label,
                             id |-> result.config.models[i].id]] ] ],
      results |-> [i \in 1..Len(result.sample_results) |->
                     ResultEntry(result.sample_results[i])],
      model_summaries |-> result.model_summaries,
      group_summaries |-> result.group_summaries ]

\* A dict insertion that keeps the row a key already has (setdefault).
DictSetDefault(merged_rows, row) ==
    IF \E i \in 1..Len(merged_rows) : _row_key(merged_rows[i]) = _row_key(row)
    THEN merged_rows
    ELSE Append(merged_rows, row)

\* a dict that puts a replaced row at the end
DictSetMoveToEnd(merged_rows, row) ==
    Append(SelectSeq(merged_rows, LAMBDA old : _row_key(old) # _row_key(row)), row)

\* merged_rows[key] = row on an insertion-ordered dict, kept as a sequence of
\* rows: a known key keeps its place, a new key goes to the end.
DictSet(merged_rows, row) ==
    IF \E i \in 1..Len(merged_rows) : _row_key(merged_rows[i]) = _row_key(row)
    THEN [i \in 1..Len(merged_rows) |->
            IF _row_key(merged_rows[i]) = _row_key(row) THEN row ELSE merged_rows[i]]
    ELSE Append(merged_rows, row)

RECURSIVE MergeRows(_, _)
\* the two loops over existing and new rows: rows[1..n] put into the dict
\* (the dict before rows[n] is bound as a value, to be computed once)
MergeRows(rows, n) ==
    IF n = 0 THEN <<>>
    ELSE IF _row_key(rows[n]) = NoKey THEN MergeRows(rows, n - 1)
    ELSE CHOOSE merged_rows \in
            {DictSet(before, rows[n]) : before \in {MergeRows(rows, n - 1)}} : TRUE

PassthroughRows(rows) == SelectSeq(rows, LAMBDA row : _row_key(row) = NoKey)

\* a roster that takes every model of the existing document
ExtendModelsAll(model_configs, existing, i) ==
    model_configs \o SubSeq(existing, i, Len(existing))

RECURSIVE ExtendModels(_, _, _)
\* the loop over the existing document's models: existing[i..] appended to
\* model_configs unless the label is known
ExtendModels(model_configs, existing, i) ==
    IF i > Len(existing) THEN model_configs
    ELSE LET label == existing[i].label
             known_labels == {model_configs[j].label : j \in 1..Len(model_configs)}
         IN  IF ~Falsy(label) /\ label \notin known_labels
             THEN ExtendModels(Append(model_configs, existing[i]), existing, i + 1)
             ELSE ExtendModels(model_configs, existing, i + 1)

\* (the merged rows are bound as a value, to be computed once)
_merge_existing_results(new_data, existing_data) ==
    LET all_rows == existing_data.results \o new_data.results
        model_configs == ExtendModels(new_data.benchmark.config.models,
                                      existing_data.benchmark.config.models, 1)
        known_labels == {model_configs[i].label : i \in 1..Len(model_configs)}
        With(merged) ==
            [ benchmark |->
                [new_data.benchmark EXCEPT !.config.models = model_configs],
              results |-> merged,
              group_summaries |->
                  DictUpdate(existing_data.group_summaries, new_data.group_summaries),
              model_summaries |->
                  _recompute_model_summaries(
                      merged, {label \in known_labels : ~Falsy(label)}) ]
    IN  CHOOSE data \in
            { With(rows) : rows \in
                {PassthroughRows(all_rows) \o MergeRows(all_rows, Len(all_rows))} } : TRUE

\* A write that dumps the new run alone, whatever was loaded.
WriteResultsDataNoMerge(result, existing_data) == _build_json(result)

\* The data write_results dumps: `if existing_data:` is false for None (no
\* file was loaded).
WriteResultsData(result, existing_data) ==
    IF existing_data # NoneObj
    THEN _merge_existing_results(_build_json(result), existing_data)
    ELSE _build_json(result)

\* A merge that works on the loaded document itself: the merged rows and
\* group summaries are put into it.
MergedIntoExisting(new_data, existing_data) ==
    [ existing_data EXCEPT
        !.results = _merge_existing_results(new_data, existing_data).results,
        !.group_summaries =
            _merge_existing_results(new_data, existing_data).group_summaries ]

\* What _merge_existing_results leaves of the document it merges from: its
\* rows are read into new dicts and lists, its group summaries copied
\* (dict(...)) before the update, its models appended to new_data's list;
\* nothing of it is assigned to.
ExistingAfterMerge(new_data, existing_data) == existing_data

\* main's existing_data after write_results(result, path, existing_data)
ExistingAfterWrite(result, existing_data) ==
    IF existing_data # NoneObj
    THEN ExistingAfterMerge(_build_json(result), existing_data)
    ELSE existing_data

-----------------------------------------------------------------------------
(* Files.  A file is absent, or holds a document; while it is being written *)
(* (opened for writing, not yet dumped and synced) it holds some prefix of  *)
(* one, which json.load cannot decode.                                      *)

NoFile == [exists |-> FALSE]
PartialFile == [exists |-> TRUE, complete |-> FALSE]
CompleteFile(data) == [exists |-> TRUE, complete |-> TRUE, data |-> data]

\* A row as an earlier run or an older version left it.
Row(group, label, image, gt_file, model, output, error, metrics) ==
    [ group |-> group, label |-> label, image |-> image,
      ground_truth_file |-> gt_file, ground_truth_text |-> <<"o", "k">>,
      model |-> model, model_output |-> output, error |-> error,
      metrics |-> metrics,
      response_metadata |-> IF metrics = NoneObj
                            THEN [input_tokens |-> 0, output_tokens |-> 0]
                            ELSE [input_tokens |-> 2, output_tokens |-> 1] ]

\* A document of earlier runs: a row of a model no longer configured, a row
\* with no "model" field, a failed row of (g1, A, m1) and a completed row of
\* (g1, B, m1) stored without its label.
LegacyRows ==
    << Row("g1", "a", UrlA, "gtA.txt", "m0", <<"o", "k">>, NoneText,
           compute_metrics(<<"o", "k">>, <<"o", "k">>)),
       Row("g1", "a", UrlA, "gtA.txt", None, <<"o", "k">>, NoneText, NoneObj),
       Row("g1", "a", UrlA, "gtA.txt", "m1", <<>>, <<"E", "r", "r">>, NoneObj),
       Row("g1", None, UrlB, "gtB.txt", "m1", <<"o", "k">>, NoneText,
           compute_metrics(<<"o", "k">>, <<"o", "k">>)) >>

\* Its summaries are those of its rows.
LegacyDocument ==
    [ benchmark |-> [ timestamp |-> 0, total_duration_seconds |-> 1,
                      config |-> [models |-> <<ModelM0>>] ],
      results |-> LegacyRows,
      model_summaries |-> _recompute_model_summaries(LegacyRows, {"m0"}),
      group_summaries |-> _recompute_group_summaries(LegacyRows) ]

\* What the output path holds before the first run.
InitialFiles == {NoFile, CompleteFile(LegacyDocument)}

\* A loader that takes a file it cannot decode for no file at all.
LoadResultsOrNone(file) ==
    IF ~file.exists THEN NoneObj
    ELSE IF ~file.complete THEN NoneObj
    ELSE file.data

\* results.load_results: None when the path does not exist, the parsed
\* document, or "ValueError" for a file json.load cannot decode.
load_results(file) ==
    IF ~file.exists THEN NoneObj
    ELSE IF ~file.complete THEN [value_error |-> TRUE]
    ELSE file.data

-----------------------------------------------------------------------------
(* The model invocation (vision.call_vision_model), seen from the           *)
(* scheduler: it returns a VisionResponse, with text or with an error.      *)

\* Token counts are the provider's: its total need not be input + output.
VisionResponses ==
    { [text |-> <<"o", "k">>, error |-> NoneText,
       input_tokens |-> 2, output_tokens |-> 1, total_tokens |-> 3],
      [text |-> <<".", ".">>, error |-> NoneText,
       input_tokens |-> 1, output_tokens |-> 1, total_tokens |-> 2],
      [text |-> <<"T", "i", "m", "e", "o", "u", "t">>, error |-> NoneText,
       input_tokens |-> 1, output_tokens |-> 1, total_tokens |-> 3],
      [text |-> <<>>, error |-> <<"E", "r", "r">>,
       input_tokens |-> 0, output_tokens |-> 0, total_tokens |-> 0] }

\* A test that finds no error in any response.
NoErrorEver(response) == TRUE

\* `not response.error`
NoError(response) == IsNoneText(response.error) \/ response.error = <<>>

-----------------------------------------------------------------------------
(* Enumeration of the units (runner.run_benchmark, the task list).          *)

UnitsOfSample(cfg, gi, si) ==
    [mi \in 1..Len(cfg.models) |-> [g |-> gi, s |-> si, m |-> mi]]

RECURSIVE UnitsOfGroup(_, _, _)
UnitsOfGroup(cfg, gi, si) ==
    IF si > Len(cfg.groups[gi].samples) THEN <<>>
    ELSE UnitsOfSample(cfg, gi, si) \o UnitsOfGroup(cfg, gi, si + 1)

RECURSIVE UnitsFrom(_, _)
\* every (group, sample, model) in configuration order
UnitsFrom(cfg, gi) ==
    IF gi > Len(cfg.groups) THEN <<>>
    ELSE UnitsOfGroup(cfg, gi, 1) \o UnitsFrom(cfg, gi + 1)

Units(cfg) == UnitsFrom(cfg, 1)

UnitSet(cfg) == {Units(cfg)[i] : i \in 1..Len(Units(cfg))}

UnitSample(cfg, u) == cfg.groups[u.g].samples[u.s]

\* the key run_benchmark makes for a unit
UnitKey(cfg, u) ==
    make_result_key(cfg.groups[u.g].name, UnitSample(cfg, u).label,
                    UnitSample(cfg, u).image_url, UnitSample(cfg, u).ground_truth,
                    cfg.models[u.m].label)

\* A task list that ignores the skip-set.
BuildTasksNoSkip(cfg, skipped) ==
    [i \in 1..Len(Units(cfg)) |->
        [ unit |-> Units(cfg)[i],
          gt_text |-> normalize_for_comparison(
              read_text(UnitSample(cfg, Units(cfg)[i]).ground_truth)) ]]

\* tasks: the units whose key is not skipped, each with its ground truth
BuildTasks(cfg, skipped) ==
    LET kept == SelectSeq(Units(cfg), LAMBDA u : UnitKey(cfg, u) \notin skipped)
    IN  [i \in 1..Len(kept) |->
            [ unit |-> kept[i],
              gt_text |-> normalize_for_comparison(
                  read_text(UnitSample(cfg, kept[i]).ground_truth)) ]]

\* An enumeration that reads no ground truth, and so never raises.
ReadsNothing(cfg) == FALSE

\* The enumeration reads the ground truth of every sample, before it looks
\* at the skip-set: read_text raises for one of them.
ReadFails(cfg) ==
    \E g \in 1..Len(cfg.groups) : \E k \in 1..Len(cfg.groups[g].samples) :
        ReadRaises(cfg.groups[g].samples[k].ground_truth)

\* A SampleResult that names the model by its provider id, not its label.
MakeSampleResultById(cfg, task, response) ==
    [ group_name |-> cfg.groups[task.unit.g].name,
      sample_label |-> UnitSample(cfg, task.unit).label,
      image_url |-> UnitSample(cfg, task.unit).image_url,
      ground_truth_path |-> UnitSample(cfg, task.unit).ground_truth,
      ground_truth_text |-> task.gt_text,
      model_id |-> cfg.models[task.unit.m].id,
      model_output |-> normalize_for_comparison(response.text),
      error |-> response.error,
      metrics |-> IF NoError(response)
                  THEN compute_metrics(task.gt_text, response.text)
                  ELSE NoneObj,
      input_tokens |-> response.input_tokens,
      output_tokens |-> response.output_tokens,
      total_tokens |-> response.total_tokens ]

\* the SampleResult process() builds from a response
MakeSampleResult(cfg, task, response) ==
    [ group_name |-> cfg.groups[task.unit.g].name,
      sample_label |-> UnitSample(cfg, task.unit).label,
      image_url |-> UnitSample(cfg, task.unit).image_url,
      ground_truth_path |-> UnitSample(cfg, task.unit).ground_truth,
      ground_truth_text |-> task.gt_text,
      model_id |-> cfg.models[task.unit.m].label,
      model_output |-> normalize_for_comparison(response.text),
      error |-> response.error,
      metrics |-> IF NoError(response)
                  THEN compute_metrics(task.gt_text, response.text)
                  ELSE NoneObj,
      input_tokens |-> response.input_tokens,
      output_tokens |-> response.output_tokens,
      total_tokens |-> response.total_tokens ]

-----------------------------------------------------------------------------
(* State.                                                                   *)

\* The number of times the process is started on the same configuration.
MaxRuns == 2

\* The largest elapsed time (in whole seconds) a run measures.
MaxDuration == 1

VARIABLES
    raw,            \* main: the parsed configuration file
    vision,         \* one call of call_vision_model: its inputs and its outcome
    cache,          \* the files of the image cache directory
    fetched,        \* per call of fetch_iiif_image: its arguments and outcome
    callbacks,      \* run_benchmark: the awaitable on_result calls not yet over
    config,         \* the BenchConfig load_config returned (the same every run)
    initial_file,   \* what the output path held before the first run
    out_file,       \* the file at config.output
    tmp_file,       \* the file at config.output + ".tmp"
    run,            \* which start of the process this is
    pc,             \* where main() is
    exit_code,      \* main()'s return value, None while it runs
    existing_data,  \* main: what load_results returned
    skip_keys,      \* main: the skip-set handed to run_benchmark
    tasks,          \* run_benchmark: the task list
    tstate,         \* per task: where its process() coroutine is
    sem_value,      \* the semaphore's counter
    sem_waiters,    \* the semaphore's queue of waiting tasks
    started,        \* run_benchmark: the started counter
    completed,      \* run_benchmark: the completed counter
    numbers,        \* run_benchmark: the values of n and of done, task by task
    ready,          \* as_completed: finished tasks not yet yielded, oldest first
    result,         \* run_benchmark: the BenchmarkResult
    wpc,            \* where write_results is ("idle": not running)
    wdata,          \* write_results: the data being dumped
    invocations,    \* per unit: the calls of call_vision_model in this run
    checkpoints,    \* per on_result call: the number of outcomes it was shown
    counts          \* main, recompute mode: what recompute_comparisons returned

vars == << raw, vision, cache, fetched, callbacks, config, initial_file, out_file, tmp_file, run, pc, exit_code,
           existing_data, skip_keys, tasks, tstate, sem_value, sem_waiters,
           started, completed, numbers, ready, result, wpc, wdata,
           invocations, checkpoints, counts >>

files == << out_file, tmp_file >>
iiif == << cache, fetched >>
scheduler == << tasks, tstate, sem_value, sem_waiters, started, completed,
                numbers, ready, invocations >>

\* BenchmarkResult(config=config, timestamp=now)
NewResult(cfg, now) ==
    [ config |-> cfg, sample_results |-> <<>>, model_summaries |-> EmptyDict,
      group_summaries |-> EmptyDict, timestamp |-> now,
      total_duration_seconds |-> 0 ]

\* The memory of a process that has not yet done anything.
FreshMemory ==
    /\ existing_data = NoneObj
    /\ skip_keys = {}
    /\ tasks = <<>>
    /\ tstate = <<>>
    /\ sem_value = 0
    /\ sem_waiters = <<>>
    /\ started = 0
    /\ completed = 0
    /\ numbers = [started |-> <<>>, done |-> <<>>]
    /\ ready = <<>>
    /\ result = NewResult(config, 0)
    /\ wpc = "idle"
    /\ wdata = NoneObj
    /\ invocations = [u \in UnitSet(config) |-> 0]
    /\ checkpoints = <<>>
    /\ counts = None

\* The same of the next state: the memory of a process is lost with it.
ForgetMemory ==
    /\ existing_data' = NoneObj
    /\ skip_keys' = {}
    /\ tasks' = <<>>
    /\ tstate' = <<>>
    /\ sem_value' = 0
    /\ sem_waiters' = <<>>
    /\ started' = 0
    /\ completed' = 0
    /\ numbers' = [started |-> <<>>, done |-> <<>>]
    /\ ready' = <<>>
    /\ result' = NewResult(config, 0)
    /\ wpc' = "idle"
    /\ wdata' = NoneObj
    /\ invocations' = [u \in UnitSet(config) |-> 0]
    /\ checkpoints' = <<>>
    /\ counts' = None

Init ==
    /\ raw = None
    /\ vision = None
    /\ cache = {}
    /\ fetched = <<>>
    /\ callbacks = 0
    /\ config \in BenchConfigs
    /\ initial_file \in InitialFiles
    /\ out_file = initial_file
    /\ tmp_file = NoFile
    /\ run = 1
    /\ pc = "boot"
    /\ exit_code = None
    /\ FreshMemory

-----------------------------------------------------------------------------
(* The semaphore (asyncio.Semaphore, as `async with semaphore` uses it).    *)

\* A semaphore that never reports itself locked: every acquire goes through.
SemNeverLocked == FALSE

\* Semaphore.locked(): no permit left, or somebody is queued.
SemLocked == sem_value = 0 \/ sem_waiters # <<>>

\* The queue positions whose future is not yet done.
StillWaiting(waiters, ts) == {i \in 1..Len(waiters) : ts[waiters[i]] = "waiting"}

Min(S) == CHOOSE x \in S : \A y \in S : x <= y

RECURSIVE WakeWhilePermits(_, _, _)
\* _wake_up_next() while a permit is left: the oldest waiter whose future is
\* not done gets the permit.
WakeWhilePermits(value, waiters, ts) ==
    IF value > 0 /\ StillWaiting(waiters, ts) # {}
    THEN WakeWhilePermits(value - 1, waiters,
            [ts EXCEPT ![waiters[Min(StillWaiting(waiters, ts))]] = "granted"])
    ELSE [value |-> value, tstate |-> ts]

\* A release that neither returns the permit nor wakes a waiter.
ReleaseLosesPermit(value, waiters, ts) == [value |-> value, tstate |-> ts]

\* Semaphore.release(): one permit back, one waiter woken.
Release(value, waiters, ts) ==
    IF StillWaiting(waiters, ts) # {}
    THEN [ value |-> value,
           tstate |-> [ts EXCEPT ![waiters[Min(StillWaiting(waiters, ts))]] = "granted"] ]
    ELSE [value |-> value + 1, tstate |-> ts]

Without(waiters, t) == SelectSeq(waiters, LAMBDA w : w # t)

-----------------------------------------------------------------------------
(* main(), up to the event loop.                                            *)

ModelLabels(cfg) == {cfg.models[i].label : i \in 1..Len(cfg.models)}

\* main: load_results, then the skip-set.
Boot ==
    /\ pc = "boot"
    /\ LET loaded == load_results(out_file)
       IN  IF loaded = [value_error |-> TRUE]
           THEN /\ pc' = "exited"
                /\ exit_code' = 1
                /\ UNCHANGED << existing_data, skip_keys >>
           ELSE /\ existing_data' = loaded
                /\ skip_keys' = IF loaded # NoneObj
                                THEN completed_result_keys(loaded, ModelLabels(config))
                                ELSE {}
                /\ pc' = "loaded"
                /\ UNCHANGED exit_code
    /\ UNCHANGED << raw, vision, iiif, callbacks, config, initial_file, files, run, scheduler, result, wpc,
                    wdata, checkpoints, counts >>

\* run_benchmark up to the creation of the tasks; with nothing to run it
\* returns at once and main ends with "Nothing to run", writing nothing.
\* When a ground truth cannot be read the exception leaves run_benchmark
\* before there is any task, and main returns 2.
Enumerate ==
    /\ pc = "loaded"
    /\ result' = NewResult(config, run)
    /\ IF ReadFails(config)
       THEN /\ pc' = "exited"
            /\ exit_code' = 2
            /\ UNCHANGED << tasks, tstate, sem_value >>
       ELSE IF Len(BuildTasks(config, skip_keys)) = 0
       THEN /\ tasks' = BuildTasks(config, skip_keys)
            /\ pc' = "exited"
            /\ exit_code' = 0
            /\ UNCHANGED << tstate, sem_value >>
       ELSE /\ tasks' = BuildTasks(config, skip_keys)
            /\ pc' = "running"
            /\ tstate' = [t \in 1..Len(BuildTasks(config, skip_keys)) |-> "created"]
            /\ sem_value' = config.max_concurrency
            /\ UNCHANGED exit_code
    /\ UNCHANGED << raw, vision, iiif, callbacks, config, initial_file, files, run,
                    existing_data, skip_keys, sem_waiters, started, completed,
                    numbers, ready, wpc, wdata, invocations, checkpoints,
                    counts >>

-----------------------------------------------------------------------------
(* process(): one coroutine per task.  The event loop runs one coroutine at *)
(* a time, up to its next suspension; nothing runs while write_results does.*)

LoopIdle == pc = "running" /\ wpc = "idle"

\* What entering call_vision_model records.
Invoke(t) == [invocations EXCEPT ![tasks[t].unit] = @ + 1]

\* A counter read before it is incremented.
CounterReadEarly(counter) == counter

\* `started += 1; n = started` (and `completed += 1; done = completed`) under
\* the lock, which nobody holds at a suspension: what is read from a counter.
CounterRead(counter) == counter + 1

\* From the start of process() to its first suspension: the started counter,
\* then the semaphore: taken at once and the model called, or queued for.
\* The tasks were created in list order and the loop starts them in that order.
Start(t) ==
    /\ LoopIdle
    /\ tstate[t] = "created"
    /\ \A earlier \in 1..(t - 1) : tstate[earlier] # "created"
    /\ started' = started + 1
    /\ numbers' = [numbers EXCEPT !.started = Append(@, CounterRead(started))]
    /\ IF SemLocked
       THEN /\ sem_waiters' = Append(sem_waiters, t)
            /\ tstate' = [tstate EXCEPT ![t] = "waiting"]
            /\ UNCHANGED << sem_value, invocations >>
       ELSE /\ sem_value' = sem_value - 1
            /\ tstate' = [tstate EXCEPT ![t] = "incall"]
            /\ invocations' = Invoke(t)
            /\ UNCHANGED sem_waiters
    /\ UNCHANGED << raw, vision, iiif, callbacks, config, initial_file, files, run, pc,
                    exit_code, existing_data, skip_keys, tasks, completed, ready,
                    result, wpc, wdata, checkpoints, counts >>

\* A queued task whose future was set resumes inside acquire(): it leaves the
\* queue, wakes further waiters while permits are left, and calls the model.
Resume(t) ==
    /\ LoopIdle
    /\ tstate[t] = "granted"
    /\ LET woken == WakeWhilePermits(sem_value, Without(sem_waiters, t), tstate)
       IN  /\ sem_waiters' = Without(sem_waiters, t)
           /\ sem_value' = woken.value
           /\ tstate' = [woken.tstate EXCEPT ![t] = "incall"]
    /\ invocations' = Invoke(t)
    /\ UNCHANGED << raw, vision, iiif, callbacks, config, initial_file, files, run, pc,
                    exit_code, existing_data, skip_keys, tasks, started, completed,
                    numbers, ready, result, wpc, wdata, checkpoints, counts >>

\* A process() that lets the error of a model escape as an exception.
ResponseRaisesOnError(response) == ~NoError(response)

\* Whether process() raises on a response: it never does, an error of the
\* model is recorded in the SampleResult and the task ends like any other.
ResponseRaises(response) == FALSE

\* call_vision_model returns (text or error): the semaphore is released, the
\* completed counter counted, the SampleResult built; the task is finished.
Return(t, response) ==
    /\ LoopIdle
    /\ tstate[t] = "incall"
    /\ LET released == Release(sem_value, sem_waiters, tstate)
       IN  /\ sem_value' = released.value
           /\ tstate' = [released.tstate EXCEPT ![t] = "done"]
    /\ completed' = completed + 1
    /\ numbers' = [numbers EXCEPT !.done = Append(@, CounterRead(completed))]
    /\ IF ResponseRaises(response)
       THEN pc' = "exited" /\ exit_code' = 2 /\ UNCHANGED ready
       ELSE /\ ready' = Append(ready, MakeSampleResult(config, tasks[t], response))
            /\ UNCHANGED << pc, exit_code >>
    /\ UNCHANGED << raw, vision, iiif, callbacks, config, initial_file, files, run,
                    existing_data, skip_keys, tasks, sem_waiters, started, result,
                    wpc, wdata, invocations, checkpoints, counts >>

-----------------------------------------------------------------------------
(* The loop over as_completed, and write_results.                           *)

\* An append that leaves out the outcomes of failed invocations.
AppendUnlessFailed(res, sample_result) ==
    IF NoError(sample_result) THEN [res EXCEPT !.sample_results = Append(@, sample_result)]
    ELSE res

\* result.sample_results.append(sample_result)
AppendOutcome(res, sample_result) ==
    [res EXCEPT !.sample_results = Append(@, sample_result)]

\* One turn of the loop: the oldest finished task's result is appended, the
\* summaries recomputed and on_result(result) called, which is main's
\* write_results(partial, ...).
Collect ==
    /\ LoopIdle
    /\ ready # <<>>
    /\ ready' = Tail(ready)
    /\ \E partial \in {recompute_summaries(AppendOutcome(result, Head(ready)))} :
           /\ result' = partial
           /\ checkpoints' = Append(checkpoints, Len(partial.sample_results))
           /\ wdata' = WriteResultsData(partial, existing_data)
           /\ existing_data' = ExistingAfterWrite(partial, existing_data)
    /\ wpc' = "open"
    /\ UNCHANGED << raw, vision, iiif, callbacks, config, initial_file, files, run, pc, exit_code,
                    skip_keys, tasks, tstate, sem_value,
                    sem_waiters, started, completed, numbers, invocations,
                    counts >>

\* The loop is over: the duration is taken, run_benchmark returns and main
\* calls write_results on the final result.
Finish(elapsed) ==
    /\ LoopIdle
    /\ Len(result.sample_results) = Len(tasks)
    /\ \E final \in {recompute_summaries(
                          [result EXCEPT !.total_duration_seconds = elapsed])} :
           /\ result' = final
           /\ wdata' = WriteResultsData(final, existing_data)
           /\ existing_data' = ExistingAfterWrite(final, existing_data)
    /\ wpc' = "open"
    /\ pc' = "finalizing"
    /\ UNCHANGED << raw, vision, iiif, callbacks, config, initial_file, files, run, exit_code,
                    skip_keys, scheduler, checkpoints, counts >>

\* A write that opens the output path itself instead of the temporary file.
WriteOpenInPlace ==
    /\ wpc = "open"
    /\ out_file' = PartialFile
    /\ wpc' = "dump"
    /\ UNCHANGED << raw, vision, iiif, callbacks, config, initial_file, tmp_file, run, pc, exit_code,
                    existing_data, skip_keys, scheduler, result, wdata,
                    checkpoints, counts >>

\* open(temp_path, "w"): the temporary file exists and is empty.
WriteOpen ==
    /\ wpc = "open"
    /\ tmp_file' = PartialFile
    /\ wpc' = "dump"
    /\ UNCHANGED << raw, vision, iiif, callbacks, config, initial_file, out_file, run, pc, exit_code,
                    existing_data, skip_keys, scheduler, result, wdata,
                    checkpoints, counts >>

\* json.dump, flush, fsync, close: the temporary file holds the document.
WriteDump ==
    /\ wpc = "dump"
    /\ tmp_file' = CompleteFile(wdata)
    /\ wpc' = "replace"
    /\ UNCHANGED << raw, vision, iiif, callbacks, config, initial_file, out_file, run, pc, exit_code,
                    existing_data, skip_keys, scheduler, result, wdata,
                    checkpoints, counts >>

\* os.replace(temp_path, output_path); write_results returns: to the loop,
\* or to main, which prints the summary and returns 0.
WriteReplace ==
    /\ wpc = "replace"
    /\ out_file' = tmp_file
    /\ tmp_file' = NoFile
    /\ wpc' = "idle"
    /\ IF pc = "finalizing"
       THEN pc' = "exited" /\ exit_code' = 0
       ELSE UNCHANGED << pc, exit_code >>
    /\ UNCHANGED << raw, vision, iiif, callbacks, config, initial_file, run, existing_data, skip_keys,
                    scheduler, result, wdata, checkpoints, counts >>

\* A failing write whose exception the loop swallows: the run goes on.
WriteFailSwallowed ==
    /\ wpc # "idle"
    /\ wpc' = "idle"
    /\ UNCHANGED << raw, vision, iiif, callbacks, config, initial_file, files, run, pc,
                    exit_code, existing_data, skip_keys, scheduler, result,
                    wdata, checkpoints, counts >>

\* open, json.dump, fsync or os.replace raises (disk full, permission): the
\* exception leaves write_results and run_benchmark; main returns 2.
WriteFail ==
    /\ wpc # "idle"
    /\ pc' = "exited"
    /\ exit_code' = 2
    /\ ForgetMemory
    /\ UNCHANGED << raw, vision, iiif, callbacks, config, initial_file, files, run >>

\* KeyboardInterrupt (or the process is killed) anywhere in asyncio.run or
\* in the final write: the process is gone, and its memory with it.
Interrupt ==
    /\ pc \in {"running", "finalizing"}
    /\ pc' = "exited"
    /\ exit_code' = 2
    /\ ForgetMemory
    /\ UNCHANGED << raw, vision, iiif, callbacks, config, initial_file, files, run >>

\* The process is started again on the same configuration.
Restart ==
    /\ pc = "exited"
    /\ run < MaxRuns
    /\ run' = run + 1
    /\ pc' = "boot"
    /\ exit_code' = None
    /\ ForgetMemory
    /\ UNCHANGED << raw, vision, iiif, callbacks, config, initial_file, files >>

\* One run of the process.
NextRun ==
    \/ Boot
    \/ Enumerate
    \/ \E t \in DOMAIN tstate : Start(t)
    \/ \E t \in DOMAIN tstate : Resume(t)
    \/ \E t \in DOMAIN tstate, response \in VisionResponses : Return(t, response)
    \/ Collect
    \/ \E elapsed \in 0..MaxDuration : Finish(elapsed)
    \/ WriteOpen
    \/ WriteDump
    \/ WriteReplace
    \/ WriteFail
    \/ Interrupt

Spec == Init /\ [][NextRun]_vars

\* The process started again and again on the same configuration; the
\* configurations are those of a single group, run one call at a time or
\* with the most calls at a time.
InitResume ==
    /\ Init
    /\ Len(config.groups) = 1
    /\ config.max_concurrency \in {1, MaxConcurrency}

\* (the runs of this specification take less than a second: what a run
\* measures as its duration plays no part in a restart)
NextResume ==
    \/ Boot
    \/ Enumerate
    \/ \E t \in DOMAIN tstate : Start(t)
    \/ \E t \in DOMAIN tstate : Resume(t)
    \/ \E t \in DOMAIN tstate, response \in VisionResponses : Return(t, response)
    \/ Collect
    \/ Finish(0)
    \/ WriteOpen
    \/ WriteDump
    \/ WriteReplace
    \/ WriteFail
    \/ Interrupt
    \/ Restart

ResumeSpec == InitResume /\ [][NextResume]_vars

\* One run in which nothing fails from outside: no interrupt, no failing
\* write.  The event loop keeps running what is ready, and every model
\* invocation returns.
NextLive ==
    \/ Boot
    \/ Enumerate
    \/ \E t \in DOMAIN tstate : Start(t)
    \/ \E t \in DOMAIN tstate : Resume(t)
    \/ \E t \in DOMAIN tstate, response \in VisionResponses : Return(t, response)
    \/ Collect
    \/ \E elapsed \in 0..MaxDuration : Finish(elapsed)
    \/ WriteOpen
    \/ WriteDump
    \/ WriteReplace

LiveSpec == Init /\ [][NextLive]_vars /\ WF_vars(NextLive)

-----------------------------------------------------------------------------
(* run_benchmark with an on_result that returns an awaitable: the loop      *)
(* awaits it, and while it is suspended the event loop runs the tasks.      *)

\* A loop that goes on without awaiting the callback's awaitable.
CallbackNotAwaited == TRUE

\* `await callback_result`: the loop goes on when the callback is over.
CallbackAwaited == callbacks = 0

InitAwait ==
    /\ raw = None
    /\ vision = None
    /\ cache = {}
    /\ fetched = <<>>
    /\ callbacks = 0
    /\ config \in BenchConfigs
    /\ initial_file = NoFile
    /\ out_file = NoFile
    /\ tmp_file = NoFile
    /\ run = 1
    /\ pc = "loaded"
    /\ exit_code = None
    /\ FreshMemory

\* One turn of the loop: the oldest finished task's result is appended, the
\* summaries recomputed and on_result(result) called, which suspends.
CollectAwaitable ==
    /\ LoopIdle
    /\ CallbackAwaited
    /\ ready # <<>>
    /\ ready' = Tail(ready)
    /\ \E partial \in {recompute_summaries(AppendOutcome(result, Head(ready)))} :
           /\ result' = partial
           /\ checkpoints' = Append(checkpoints, Len(partial.sample_results))
    /\ callbacks' = callbacks + 1
    /\ UNCHANGED << raw, vision, iiif, config, initial_file, files, run, pc, exit_code,
                    existing_data, skip_keys, tasks, tstate, sem_value,
                    sem_waiters, started, completed, numbers, invocations, wpc,
                    wdata, counts >>

\* The awaitable of a callback completes.
CallbackReturns ==
    /\ pc = "running"
    /\ callbacks > 0
    /\ callbacks' = callbacks - 1
    /\ UNCHANGED << raw, vision, iiif, config, initial_file, files, run, pc, exit_code,
                    existing_data, skip_keys, scheduler, result, wpc, wdata,
                    checkpoints, counts >>

\* The awaitable of a callback raises: the exception leaves the loop and
\* run_benchmark.
CallbackRaises ==
    /\ pc = "running"
    /\ callbacks > 0
    /\ callbacks' = callbacks - 1
    /\ pc' = "raised"
    /\ UNCHANGED << raw, vision, iiif, config, initial_file, files, run, exit_code,
                    existing_data, skip_keys, scheduler, result, wpc, wdata,
                    checkpoints, counts >>

\* The loop is over: the duration is taken, the summaries recomputed and
\* run_benchmark returns.
ReturnResult(elapsed) ==
    /\ LoopIdle
    /\ CallbackAwaited
    /\ Len(result.sample_results) = Len(tasks)
    /\ result' = recompute_summaries(
                     [result EXCEPT !.total_duration_seconds = elapsed])
    /\ pc' = "returned"
    /\ UNCHANGED << raw, vision, iiif, callbacks, config, initial_file, files, run,
                    exit_code, existing_data, skip_keys, scheduler, wpc, wdata,
                    checkpoints, counts >>

NextAwait ==
    \/ Enumerate
    \/ \E t \in DOMAIN tstate : Start(t)
    \/ \E t \in DOMAIN tstate : Resume(t)
    \/ \E t \in DOMAIN tstate, response \in VisionResponses : Return(t, response)
    \/ CollectAwaitable
    \/ CallbackReturns
    \/ CallbackRaises
    \/ \E elapsed \in 0..MaxDuration : ReturnResult(elapsed)

AwaitSpec == InitAwait /\ [][NextAwait]_vars

-----------------------------------------------------------------------------
(* One run on a configuration with a sample whose ground truth exists (so   *)
(* that load_config accepts it) and cannot be read.                         *)

SampleUnreadable == [image_url |-> UrlB, ground_truth |-> ".", label |-> ""]

\* The sample that cannot be read comes first, last or alone; or there is
\* none.
ReadConfigs ==
    { [groups |-> << [name |-> "g1", samples |-> samples] >>,
       models |-> <<ModelM1, ModelM2>>, max_concurrency |-> 1] :
        samples \in { <<SampleA>>, <<SampleUnreadable>>,
                      <<SampleA, SampleUnreadable>>,
                      <<SampleUnreadable, SampleA>> } }

\* The document an earlier run on these samples left, made when every ground
\* truth could still be read (as "ok") and every call returned "ok".
EarlierRunDocument(samples) ==
    LET cfg == [groups |-> << [name |-> "g1", samples |-> samples] >>,
                models |-> <<ModelM1, ModelM2>>, max_concurrency |-> 1]
        ok == [text |-> <<"o", "k">>, error |-> NoneText,
               input_tokens |-> 2, output_tokens |-> 1, total_tokens |-> 3]
    IN  _build_json(recompute_summaries(
            [ NewResult(cfg, 0) EXCEPT
                !.sample_results =
                    [i \in 1..Len(Units(cfg)) |->
                        MakeSampleResult(cfg, [unit |-> Units(cfg)[i],
                                               gt_text |-> <<"o", "k">>], ok)] ]))

\* The output path holds nothing, the document of older runs, or that of an
\* earlier run on the sample that cannot be read any more, alone or with A.
ReadInitialFiles ==
    InitialFiles \cup
        { CompleteFile(EarlierRunDocument(<<SampleUnreadable>>)),
          CompleteFile(EarlierRunDocument(<<SampleA, SampleUnreadable>>)) }

InitRead ==
    /\ raw = None
    /\ vision = None
    /\ cache = {}
    /\ fetched = <<>>
    /\ callbacks = 0
    /\ config \in ReadConfigs
    /\ initial_file \in ReadInitialFiles
    /\ out_file = initial_file
    /\ tmp_file = NoFile
    /\ run = 1
    /\ pc = "boot"
    /\ exit_code = None
    /\ FreshMemory

ReadSpec == InitRead /\ [][NextRun]_vars

\* One run on an output path that holds nothing, a document of earlier runs,
\* or a file json.load cannot decode (cut short, or not JSON at all).
InitDecode ==
    /\ raw = None
    /\ vision = None
    /\ cache = {}
    /\ fetched = <<>>
    /\ callbacks = 0
    /\ config \in BenchConfigs
    /\ initial_file \in InitialFiles \cup {PartialFile}
    /\ out_file = initial_file
    /\ tmp_file = NoFile
    /\ run = 1
    /\ pc = "boot"
    /\ exit_code = None
    /\ FreshMemory

DecodeSpec == InitDecode /\ [][NextRun]_vars

-----------------------------------------------------------------------------
(* The functions of results.py on their own: completed_result_keys and the  *)
(* merge of write_results, applied to a document of earlier runs and the    *)
(* output of a new run.                                                     *)

\* The most rows a document of earlier runs has.
MaxRows == 2

\* Rows as earlier runs or older versions left them: completed, failed,
\* stored without label, with an error signature as output, without a
\* "model" field, of a model that may no longer be configured, and with a
\* blank output.
HistoryRows ==
    { Row("g1", "a", UrlA, "gtA.txt", "m1", <<"o", "k">>, NoneText,
          compute_metrics(<<"o", "k">>, <<"o", "k">>)),
      Row("g1", "a", UrlA, "gtA.txt", "m1", <<>>, <<"E", "r", "r">>, NoneObj),
      Row("g1", None, UrlB, "gtB.txt", "m1", <<"o", "k">>, NoneText,
          compute_metrics(<<"o", "k">>, <<"o", "k">>)),
      Row("g1", "a", UrlA, "gtA.txt", "m2", <<"T", "i", "m", "e", "o", "u", "t">>,
          NoneText, compute_metrics(<<"o", "k">>, <<"T", "i", "m", "e", "o", "u", "t">>)),
      Row("g1", "a", UrlA, "gtA.txt", None, <<"o", "k">>, NoneText, NoneObj),
      Row("g1", "a", UrlA, "gtA.txt", "m0", <<"o", "k">>, NoneText,
          compute_metrics(<<"o", "k">>, <<"o", "k">>)),
      Row("g1", "a", UrlA, "gtA.txt", "m1", <<" ">>, NoneText, NoneObj) }

\* The model lists such a document echoes.
HistoryModels == { <<ModelM1, ModelM0>>, <<ModelM0, ModelM0>> }

\* A document with these rows, its summaries those of its rows.
Document(rows, models) ==
    [ benchmark |-> [ timestamp |-> 0, total_duration_seconds |-> 1,
                      config |-> [models |-> models] ],
      results |-> rows,
      model_summaries |->
          _recompute_model_summaries(rows, {models[i].label : i \in 1..Len(models)}),
      group_summaries |-> _recompute_group_summaries(rows) ]

Documents ==
    { Document(rows, models) :
        rows \in UNION {[1..n -> HistoryRows] : n \in 0..MaxRows},
        models \in HistoryModels }

\* The configurations of the new run, one call at a time: those of the runs
\* that have a single group, one of model m2 alone, and one whose group is
\* named "" (load_config asks that a group has a name, not that the name is
\* non-empty).
MergeConfigs ==
    { [groups |-> l.groups, models |-> l.models, max_concurrency |-> 1] :
        l \in {layout \in Layouts : Len(layout.groups) = 1} \cup
              { [groups |-> << [name |-> "g1", samples |-> <<SampleA>>] >>,
                 models |-> <<ModelM2>>],
                [groups |-> << [name |-> "", samples |-> <<SampleB>>] >>,
                 models |-> <<ModelM1>>] } }

\* The result run_benchmark hands to on_result when the first tasks of the
\* list have ended with these responses.
ResultOf(cfg, responses) ==
    recompute_summaries(
        [ NewResult(cfg, 1) EXCEPT
            !.sample_results =
                [i \in 1..Len(responses) |->
                    MakeSampleResult(cfg, BuildTasks(cfg, {})[i], responses[i])] ])

NewRunResults(cfg) ==
    { ResultOf(cfg, responses) :
        responses \in UNION {[1..n -> VisionResponses] :
                                n \in 1..Len(BuildTasks(cfg, {}))} }

InitMerge ==
    /\ raw = None
    /\ vision = None
    /\ cache = {}
    /\ fetched = <<>>
    /\ callbacks = 0
    /\ config \in MergeConfigs
    /\ initial_file = NoFile
    /\ out_file = NoFile
    /\ tmp_file = NoFile
    /\ run = 1
    /\ pc = "inputs"
    /\ exit_code = None
    /\ existing_data \in Documents
    /\ skip_keys = {}
    /\ tasks = <<>>
    /\ tstate = <<>>
    /\ sem_value = 0
    /\ sem_waiters = <<>>
    /\ started = 0
    /\ completed = 0
    /\ numbers = [started |-> <<>>, done |-> <<>>]
    /\ ready = <<>>
    /\ result \in NewRunResults(config)
    /\ wpc = "idle"
    /\ wdata = NoneObj
    /\ invocations = [u \in UnitSet(config) |-> 0]
    /\ checkpoints = <<>>
    /\ counts = None

\* main: skip_keys = completed_result_keys(existing_data, model_labels)
DeriveSkipSet ==
    /\ pc = "inputs"
    /\ skip_keys' = completed_result_keys(existing_data, ModelLabels(config))
    /\ pc' = "derived"
    /\ UNCHANGED << raw, vision, iiif, callbacks, config, initial_file, files, run, exit_code, existing_data,
                    scheduler, result, wpc, wdata, checkpoints, counts >>

\* completed_result_keys(data), without model_labels (as the tests call it)
DeriveSkipSetUnfiltered ==
    /\ pc = "inputs"
    /\ skip_keys' = completed_result_keys(existing_data, {})
    /\ pc' = "derived_unfiltered"
    /\ UNCHANGED << raw, vision, iiif, callbacks, config, initial_file, files, run, exit_code, existing_data,
                    scheduler, result, wpc, wdata, checkpoints, counts >>

\* write_results: data = _build_json(result), merged with existing_data
MergeNewRun ==
    /\ pc = "derived"
    /\ wdata' = WriteResultsData(result, existing_data)
    /\ pc' = "merged"
    /\ UNCHANGED << raw, vision, iiif, callbacks, config, initial_file, files, run, exit_code, existing_data,
                    skip_keys, scheduler, result, wpc, checkpoints, counts >>

\* write_results once more, the merged document now the existing one
MergeAgain ==
    /\ pc = "merged"
    /\ existing_data' = wdata
    /\ wdata' = WriteResultsData(result, wdata)
    /\ pc' = "merged_again"
    /\ UNCHANGED << raw, vision, iiif, callbacks, config, initial_file, files, run, exit_code, skip_keys,
                    scheduler, result, wpc, checkpoints, counts >>

NextMerge ==
    \/ DeriveSkipSet
    \/ DeriveSkipSetUnfiltered
    \/ MergeNewRun
    \/ MergeAgain

MergeSpec == InitMerge /\ [][NextMerge]_vars

-----------------------------------------------------------------------------
(* The recompute pathway (results.recompute_comparisons and main's          *)
(* --recompute-comparisons mode).  A row's ground_truth_file is resolved    *)
(* against config_dir, where the ground-truth files lie.                    *)

\* not isinstance(output, str) or not output.strip()
BlankText(t) == IsNoneText(t) \/ Strip(t) = <<>>

\* not isinstance(gt_path_value, str) or not gt_path_value.strip()
BlankPath(path) == path \in {None, "", " "}

\* A row the pass counts as skipped.
SkipsRow(row) ==
    \/ HasError(row)
    \/ BlankText(row.model_output)
    \/ BlankPath(row.ground_truth_file)
    \/ ~Exists(row.ground_truth_file)

\* The loop body for one row: the row as the pass leaves it.
RecomputeRow(row) ==
    IF SkipsRow(row) THEN [row EXCEPT !.metrics = NoneObj]
    ELSE [row EXCEPT
            !.ground_truth_text =
                normalize_for_comparison(read_text(row.ground_truth_file)),
            !.metrics = compute_metrics(read_text(row.ground_truth_file),
                                        row.model_output)]

\* The rows at which the loop raises: an existing path that cannot be read.
RaisingRows(rows) ==
    {i \in 1..Len(rows) : ~SkipsRow(rows[i]) /\ ReadRaises(rows[i].ground_truth_file)}

\* recompute_comparisons(data, config_dir=...): the document is changed in
\* place, row by row; either the read of some row raises, the rows before it
\* already changed, or the summaries are recomputed and the pair returned.
recompute_comparisons(data) ==
    IF RaisingRows(data.results) # {}
    THEN [ raised |-> TRUE,
           data |-> [data EXCEPT !.results =
                        [i \in 1..Len(data.results) |->
                            IF i < Min(RaisingRows(data.results))
                            THEN RecomputeRow(data.results[i])
                            ELSE data.results[i]]] ]
    ELSE LET rows == [i \in 1..Len(data.results) |-> RecomputeRow(data.results[i])]
             model_labels ==
                 {model.label : model \in
                     {data.benchmark.config.models[i] :
                         i \in 1..Len(data.benchmark.config.models)}}
         IN  [ raised |-> FALSE,
               data |-> [data EXCEPT
                            !.results = rows,
                            !.model_summaries =
                                _recompute_model_summaries(rows, model_labels),
                            !.group_summaries = _recompute_group_summaries(rows)],
               recomputed_rows |->
                   Cardinality({i \in 1..Len(rows) : ~SkipsRow(data.results[i])}),
               skipped_rows |->
                   Cardinality({i \in 1..Len(rows) : SkipsRow(data.results[i])}) ]

\* The parameters recompute_comparisons declares, and the arguments of
\* main's call.
RecomputeParameters == {"data", "config_dir"}
MainRecomputeArguments == {"data", "config_dir", "config"}

\* A call with a keyword argument the function does not declare.
RaisesTypeError(arguments, parameters) == ~(arguments \subseteq parameters)

\* Rows as earlier runs left them and as the ground-truth files have since
\* changed: the text read from a file is no longer the stored one, a file is
\* gone, a path names a directory, a path or an output is missing or blank,
\* a failed row still carries metrics.
RecomputeRows ==
    { [Row("g1", "a", UrlA, "gtA.txt", "m1", <<"o", "k">>, NoneText, NoneObj)
          EXCEPT !.ground_truth_text = <<"o", "l", "d">>],
      Row("g1", "b", UrlB, "gtB.txt", "m1", <<"o", "k">>, NoneText,
          compute_metrics(<<"o", "k">>, <<"o", "k">>)),
      Row("g1", "a", UrlA, "gtA.txt", "m1", <<"o", "k">>, <<"E", "r", "r">>,
          compute_metrics(<<"o", "k">>, <<"o", "k">>)),
      Row("g1", "a", UrlA, "gtA.txt", "m2", <<" ">>, NoneText,
          compute_metrics(<<"o", "k">>, <<" ">>)),
      Row("g1", "a", UrlA, "gtA.txt", "m1", NoneText, NoneText, NoneObj),
      Row("g1", "a", UrlA, None, "m1", <<"o", "k">>, NoneText,
          compute_metrics(<<"o", "k">>, <<"o", "k">>)),
      Row("g1", "a", UrlA, " ", "m1", <<"o", "k">>, NoneText, NoneObj),
      Row("g1", "a", UrlA, "gone.txt", "m0", <<"o", "k">>, NoneText,
          compute_metrics(<<"o", "k">>, <<"o", "k">>)),
      Row("g1", "a", UrlA, ".", "m1", <<"o", "k">>, NoneText, NoneObj) }

RecomputeDocuments ==
    { Document(rows, <<ModelM1, ModelM0>>) :
        rows \in UNION {[1..n -> RecomputeRows] : n \in 0..MaxRows} }

InitRecompute ==
    /\ raw = None
    /\ vision = None
    /\ cache = {}
    /\ fetched = <<>>
    /\ callbacks = 0
    /\ config \in {cfg \in BenchConfigs :
                      Len(cfg.groups) = 2 /\ cfg.max_concurrency = 1}
    /\ initial_file \in {NoFile} \cup {CompleteFile(data) : data \in RecomputeDocuments}
    /\ out_file = initial_file
    /\ tmp_file = NoFile
    /\ run = 1
    /\ pc = "boot"
    /\ exit_code = None
    /\ FreshMemory

\* main up to the mode switch: existing_data = load_results(config.output)
LoadExisting ==
    /\ pc = "boot"
    /\ LET loaded == load_results(out_file)
       IN  IF loaded = [value_error |-> TRUE]
           THEN pc' = "exited" /\ exit_code' = 1 /\ UNCHANGED existing_data
           ELSE existing_data' = loaded /\ pc' = "loaded" /\ UNCHANGED exit_code
    /\ UNCHANGED << raw, vision, iiif, callbacks, config, initial_file, files, run, skip_keys, scheduler,
                    result, wpc, wdata, checkpoints, counts >>

\* main with --recompute-comparisons: without a document it returns 1; with
\* one it calls recompute_comparisons(existing_data, config_dir=config_dir,
\* config=config), then write_results_data, and returns 0.  An exception of
\* the call is caught nowhere: the interpreter ends with status 1.
RecomputeMode ==
    /\ pc = "loaded"
    /\ pc' = "exited"
    /\ IF existing_data = NoneObj
       THEN exit_code' = 1 /\ UNCHANGED << existing_data, out_file, counts >>
       ELSE IF RaisesTypeError(MainRecomputeArguments, RecomputeParameters)
       THEN exit_code' = 1 /\ UNCHANGED << existing_data, out_file, counts >>
       ELSE \E pass \in {recompute_comparisons(existing_data)} :
               /\ existing_data' = pass.data
               /\ IF pass.raised
                  THEN exit_code' = 1 /\ UNCHANGED << out_file, counts >>
                  ELSE /\ counts' = << pass.recomputed_rows, pass.skipped_rows >>
                       /\ out_file' = CompleteFile(pass.data)
                       /\ exit_code' = 0
    /\ UNCHANGED << raw, vision, iiif, callbacks, config, initial_file, tmp_file, run, skip_keys, scheduler,
                    result, wpc, wdata, checkpoints >>

\* recompute_comparisons(data, config_dir=config_dir), called as it is
\* declared, on the loaded document.
RecomputeCall ==
    /\ pc = "loaded"
    /\ existing_data # NoneObj
    /\ \E pass \in {recompute_comparisons(existing_data)} :
           /\ existing_data' = pass.data
           /\ IF pass.raised
              THEN pc' = "raised" /\ UNCHANGED counts
              ELSE /\ pc' = "recomputed"
                   /\ counts' = << pass.recomputed_rows, pass.skipped_rows >>
    /\ UNCHANGED << raw, vision, iiif, callbacks, config, initial_file, files, run, exit_code, skip_keys,
                    scheduler, result, wpc, wdata, checkpoints >>

NextRecompute ==
    \/ LoadExisting
    \/ RecomputeMode
    \/ RecomputeCall

RecomputeSpec == InitRecompute /\ [][NextRecompute]_vars

-----------------------------------------------------------------------------
(* Configuration loading (config.load_config), from the parsed TOML: a      *)
(* table is a function of its keys, so that a key may be absent.            *)

MaxModels == 2

\* m.get(key, default)
Get(table, key, default) == IF key \in DOMAIN table THEN table[key] ELSE default

\* The list has two models of the same id.
DuplicateIds(models) ==
    \E i, j \in 1..Len(models) : i # j /\ models[i].id = models[j].id

\* len(labels) != len(set(labels))
DuplicateLabels(models) ==
    \E i, j \in 1..Len(models) : i # j /\ models[i].label = models[j].label

\* ModelConfig(id=m["id"], label=m.get("label", m["id"]))
LoadModel(m) == [id |-> m.id, label |-> Get(m, "label", m.id)]

\* SampleConfig(image_url, ground_truth, label=s.get("label", ""),
\* side=s.get("side"))
LoadSample(s) ==
    [ image_url |-> s.image, ground_truth |-> s.ground_truth,
      label |-> Get(s, "label", ""), side |-> Get(s, "side", None) ]

\* The sample is one load_config raises ConfigError for (the image URLs used
\* here all start with https:// and end with /info.json).
BadSample(s) ==
    \/ "image" \notin DOMAIN s
    \/ "ground_truth" \notin DOMAIN s
    \/ ~Exists(s.ground_truth)
    \/ Get(s, "side", None) \notin {None, "verso", "recto"}

ConfigError == [config_error |-> TRUE]

\* load_config, from the [[models]] section on ([bench] and [prompts] are
\* there): the BenchConfig, or ConfigError.
load_config(toml) ==
    IF Get(toml, "models", <<>>) = <<>> THEN ConfigError
    ELSE IF \E i \in 1..Len(toml.models) : "id" \notin DOMAIN toml.models[i]
    THEN ConfigError
    ELSE IF DuplicateLabels([i \in 1..Len(toml.models) |-> LoadModel(toml.models[i])])
    THEN ConfigError
    ELSE IF Get(toml, "groups", <<>>) = <<>> THEN ConfigError
    ELSE IF \E g \in 1..Len(toml.groups) :
                \/ "name" \notin DOMAIN toml.groups[g]
                \/ \E k \in 1..Len(toml.groups[g].samples) :
                       BadSample(toml.groups[g].samples[k])
    THEN ConfigError
    ELSE [ groups |-> [g \in 1..Len(toml.groups) |->
                         [ name |-> toml.groups[g].name,
                           samples |-> [k \in 1..Len(toml.groups[g].samples) |->
                                           LoadSample(toml.groups[g].samples[k])] ]],
           models |-> [i \in 1..Len(toml.models) |-> LoadModel(toml.models[i])],
           max_concurrency |-> Get(toml.bench, "max_concurrency", 5) ]

\* [[models]] entries: with and without a label, a label that is another
\* entry's id, an empty label, an entry without id.
TomlModels ==
    { [id |-> "provider/m1"],
      [id |-> "provider/m1", label |-> "m1"],
      [id |-> "provider/m2", label |-> "m1"],
      [id |-> "provider/m2", label |-> "provider/m1"],
      [id |-> "provider/m2", label |-> ""],
      [id |-> "m1"],
      [label |-> "m2"] }

\* [[groups]] sections: one sample with and one without label and side, a
\* side that is none, a ground-truth file that is not there, and (by the
\* absent key) no group at all.
TomlGroups ==
    { << [name |-> "g1",
          samples |-> << [image |-> UrlA, ground_truth |-> "gtA.txt"] >>] >>,
      << [name |-> "g1",
          samples |-> << [image |-> UrlA, ground_truth |-> "gtA.txt",
                          label |-> "a", side |-> "verso"],
                         [image |-> UrlA, ground_truth |-> "gtA.txt",
                          label |-> "a", side |-> "recto"] >>] >>,
      << [name |-> "g1",
          samples |-> << [image |-> UrlA, ground_truth |-> "gtA.txt",
                          side |-> "left"] >>] >>,
      << [name |-> "g1",
          samples |-> << [image |-> UrlB, ground_truth |-> "gone.txt"] >>] >>,
      << >> }

TomlFiles ==
    { [bench |-> bench, models |-> models, groups |-> groups] :
        bench \in { [name |-> "run"], [name |-> "run", max_concurrency |-> 1],
                    [name |-> "run", max_concurrency |-> 0] },
        models \in UNION {[1..n -> TomlModels] : n \in 0..MaxModels},
        groups \in TomlGroups }

InitConfig ==
    /\ raw \in TomlFiles
    /\ vision = None
    /\ cache = {}
    /\ fetched = <<>>
    /\ callbacks = 0
    /\ config = None
    /\ initial_file = NoFile
    /\ out_file = NoFile
    /\ tmp_file = NoFile
    /\ run = 1
    /\ pc = "start"
    /\ exit_code = None
    /\ existing_data = NoneObj
    /\ skip_keys = {}
    /\ tasks = <<>>
    /\ tstate = <<>>
    /\ sem_value = 0
    /\ sem_waiters = <<>>
    /\ started = 0
    /\ completed = 0
    /\ numbers = [started |-> <<>>, done |-> <<>>]
    /\ ready = <<>>
    /\ result = NoneObj
    /\ wpc = "idle"
    /\ wdata = NoneObj
    /\ invocations = <<>>
    /\ checkpoints = <<>>
    /\ counts = None

\* main: config = load_config(args.config); on ConfigError it returns 1.
LoadConfig ==
    /\ pc = "start"
    /\ IF load_config(raw) = ConfigError
       THEN pc' = "exited" /\ exit_code' = 1 /\ UNCHANGED config
       ELSE pc' = "configured" /\ config' = load_config(raw) /\ UNCHANGED exit_code
    /\ UNCHANGED << raw, vision, iiif, callbacks, initial_file, files, run, existing_data, skip_keys,
                    scheduler, result, wpc, wdata, checkpoints, counts >>

NextConfig == LoadConfig

ConfigSpec == InitConfig /\ [][NextConfig]_vars

-----------------------------------------------------------------------------
(* The image cache (iiif.fetch_iiif_image).  The cached file's name is the  *)
(* SHA-256 of "<info_url>|<side_token>", taken to be free of collisions: a  *)
(* token holds no "|", so the string names the pair, and so does the path.  *)

MaxCalls == 3

\* An address that is no info.json.
UrlNoInfo == "https://example.org/iiif/a"

\* info_url.endswith("/info.json")
EndsWithInfoJson(info_url) == info_url \in {UrlA, UrlB}

\* A token that does not tell the sides apart.
SideTokenFull(side) == "full"

\* side_token = side or "full"
SideToken(side) == IF side = None \/ side = "" THEN "full" ELSE side

\* cached_path = cache_dir / f"{cache_key}.jpg"
CachedPath(info_url, side) == << info_url, SideToken(side) >>

\* What the network and the image library do to one call: all goes well, a
\* request to info.json fails (status, JSON, no id), the download of the
\* image fails, the image cannot be opened for cropping.
NetworkOutcomes == {"ok", "info_fails", "image_fails", "crop_fails"}

\* fetch_iiif_image(info_url, cache_dir, side) on the cache directory
\* `cached`: IIIFError or the path, the directory afterwards and the number
\* of requests made.
fetch_iiif_image(info_url, cached, side, outcome) ==
    IF ~EndsWithInfoJson(info_url)
    THEN [raised |-> TRUE, path |-> None, cache |-> cached, requests |-> 0]
    ELSE IF side # None /\ side \notin {"verso", "recto"}
    THEN [raised |-> TRUE, path |-> None, cache |-> cached, requests |-> 0]
    ELSE IF CachedPath(info_url, side) \in cached
    THEN [raised |-> FALSE, path |-> CachedPath(info_url, side),
          cache |-> cached, requests |-> 0]
    ELSE IF outcome = "info_fails"
    THEN [raised |-> TRUE, path |-> None, cache |-> cached, requests |-> 1]
    ELSE IF outcome = "image_fails"
    THEN [raised |-> TRUE, path |-> None, cache |-> cached, requests |-> 2]
    ELSE IF side # None /\ outcome = "crop_fails"
    THEN [raised |-> TRUE, path |-> None, cache |-> cached, requests |-> 2]
    ELSE [raised |-> FALSE, path |-> CachedPath(info_url, side),
          cache |-> cached \cup {CachedPath(info_url, side)}, requests |-> 2]

InitIiif ==
    /\ raw = None
    /\ vision = None
    /\ cache = {}
    /\ fetched = <<>>
    /\ callbacks = 0
    /\ config \in {cfg \in BenchConfigs :
                      Len(cfg.groups) = 2 /\ cfg.max_concurrency = 1}
    /\ initial_file = NoFile
    /\ out_file = NoFile
    /\ tmp_file = NoFile
    /\ run = 1
    /\ pc = "fetching"
    /\ exit_code = None
    /\ FreshMemory

\* One call, on the cache directory the calls before it left.
Fetch(info_url, side, outcome) ==
    /\ Len(fetched) < MaxCalls
    /\ \E call \in {fetch_iiif_image(info_url, cache, side, outcome)} :
           /\ cache' = call.cache
           /\ fetched' = Append(fetched, [info_url |-> info_url, side |-> side,
                                          raised |-> call.raised, path |-> call.path,
                                          requests |-> call.requests])
    /\ UNCHANGED << raw, vision, callbacks, config, initial_file, files, run, pc,
                    exit_code, existing_data, skip_keys, scheduler, result, wpc,
                    wdata, checkpoints, counts >>

NextIiif ==
    \E info_url \in {UrlA, UrlB, UrlNoInfo},
       side \in {None, "verso", "recto", "full"},
       outcome \in NetworkOutcomes : Fetch(info_url, side, outcome)

IiifSpec == InitIiif /\ [][NextIiif]_vars

-----------------------------------------------------------------------------
(* vision.call_vision_model on its own: the image is encoded, the provider  *)
(* called through litellm.acompletion, and the answer made a VisionResponse.*)

\* What _encode_image or acompletion raises: an Exception (with the text
\* str(e) gives, which may be empty) or a BaseException that is none, as the
\* CancelledError of a cancelled task.
Raises(type, message, is_exception) ==
    [raises |-> TRUE, type |-> type, message |-> message,
     is_exception |-> is_exception]

Returns(value) == [raises |-> FALSE, value |-> value]

Exceptions ==
    { Raises(<<"O", "S", "E", "r", "r", "o", "r">>, <<"n", "o">>, TRUE),
      Raises(<<"T", "i", "m", "e", "o", "u", "t">>, <<>>, TRUE),
      Raises(<<"C", "a", "n", "c", "e", "l", "l", "e", "d">>, <<>>, FALSE) }

\* _encode_image returns the data and its type, or raises.
EncodeOutcomes == {Returns([b64_data |-> <<"Q">>, mime_type |-> "image/jpeg"])} \cup Exceptions

\* The usage attribute of the provider's response: absent or None, complete,
\* or without a total.
Usages ==
    { NoneObj,
      [prompt_tokens |-> 2, completion_tokens |-> 1, total_tokens |-> 4],
      [prompt_tokens |-> 2, completion_tokens |-> 1] }

\* Its choices: none (an empty list, or None: `not choices` holds of both),
\* or one: without message, with a null content, with text.
ChoiceLists ==
    { <<>>, << [message |-> NoneObj] >>,
      << [message |-> [content |-> NoneText]] >>,
      << [message |-> [content |-> <<"o", "k">>]] >> }

\* A cost, in millionths.
Cost(millionths) == [is_none |-> FALSE, millionths |-> millionths]

\* Its _hidden_params: absent or without cost, with a null cost, with a cost.
HiddenParams == { EmptyDict, [response_cost |-> NoneObj], [response_cost |-> Cost(5)] }

ProviderOutcomes ==
    { Returns([usage |-> usage, choices |-> choices, hidden |-> hidden]) :
        usage \in Usages, choices \in ChoiceLists, hidden \in HiddenParams }
    \cup Exceptions

\* VisionResponse(model_id=..., error=...): every other field at its default.
VisionResponse(model_id, error) ==
    [ text |-> <<>>, input_tokens |-> 0, output_tokens |-> 0, total_tokens |-> 0,
      cost |-> 0, latency_seconds |-> 0, model_id |-> model_id, error |-> error ]

\* f"{type(e).__name__}: {e}"
ErrorText(e) == e.type \o <<":", " ">> \o e.message

NoChoices ==
    << "N", "o", " ", "c", "h", "o", "i", "c", "e", "s", " ", "i", "n", " ",
       "r", "e", "s", "p", "o", "n", "s", "e" >>

\* A handler that catches nothing.
CaughtNever(e) == FALSE

\* `except Exception as e`
Caught(e) == e.is_exception

\* getattr(usage, name, 0) if usage else 0
UsageCount(usage, name) ==
    IF usage = NoneObj THEN 0 ELSE Get(usage, name, 0)

\* call_vision_model: what it returns, or that it raises.  `latency` is the
\* time the provider took.
call_vision_model(model, encoded, provider, latency) ==
    LET Failure(e) ==
            IF Caught(e)
            THEN [raised |-> FALSE, response |-> VisionResponse(model.label, ErrorText(e))]
            ELSE [raised |-> TRUE, response |-> NoneObj]
        Answer(response) ==
            IF response.choices = <<>>
            THEN [raised |-> FALSE, response |-> VisionResponse(model.label, NoChoices)]
            ELSE LET text == response.choices[1].message
                     content == IF text = NoneObj THEN <<>> ELSE text.content
                     cost == Get(response.hidden, "response_cost", Cost(0))
                 IN  [ raised |-> FALSE,
                       response |->
                         [ text |-> IF IsNoneText(content) THEN <<>> ELSE content,
                           input_tokens |-> UsageCount(response.usage, "prompt_tokens"),
                           output_tokens |-> UsageCount(response.usage, "completion_tokens"),
                           total_tokens |-> UsageCount(response.usage, "total_tokens"),
                           cost |-> IF cost = NoneObj THEN 0 ELSE cost.millionths,
                           latency_seconds |-> latency,
                           model_id |-> model.label,
                           error |-> NoneText ] ]
    IN  IF encoded.raises THEN Failure(encoded)
        ELSE IF provider.raises THEN Failure(provider)
        ELSE Answer(provider.value)

\* A call about to be made: the model, what encoding and the provider will
\* do, and how long the provider takes.
InitVision ==
    /\ raw = None
    /\ vision \in { [model |-> model, encoded |-> encoded, provider |-> provider,
                     latency |-> latency, raised |-> FALSE, response |-> NoneObj] :
                        model \in {ModelM1, ModelM2}, encoded \in EncodeOutcomes,
                        provider \in ProviderOutcomes, latency \in 0..MaxDuration }
    /\ cache = {}
    /\ fetched = <<>>
    /\ callbacks = 0
    /\ config \in {cfg \in BenchConfigs :
                      Len(cfg.groups) = 2 /\ cfg.max_concurrency = 1}
    /\ initial_file = NoFile
    /\ out_file = NoFile
    /\ tmp_file = NoFile
    /\ run = 1
    /\ pc = "calling"
    /\ exit_code = None
    /\ FreshMemory

CallVisionModel ==
    /\ pc = "calling"
    /\ \E call \in {call_vision_model(vision.model, vision.encoded,
                                      vision.provider, vision.latency)} :
           /\ vision' = [vision EXCEPT !.raised = call.raised,
                                       !.response = call.response]
           /\ pc' = IF call.raised THEN "raised" ELSE "called"
    /\ UNCHANGED << raw, iiif, callbacks, config, initial_file, files, run,
                    exit_code, existing_data, skip_keys, scheduler, result, wpc,
                    wdata, checkpoints, counts >>

NextVision == CallVisionModel

VisionSpec == InitVision /\ [][NextVision]_vars

-----------------------------------------------------------------------------

(* What the claims speak of.                                                *)

\* run_benchmark has returned its result to main.
RunReturned == pc = "finalizing" \/ (pc = "exited" /\ exit_code = 0)

\* main has returned 2: an exception or an interrupt ended the run.
Aborted == pc = "exited" /\ exit_code = 2

\* The tasks inside `await call_vision_model(...)`.
InCall == {t \in DOMAIN tstate : tstate[t] = "incall"}

AllTasksDone == \A t \in DOMAIN tstate : tstate[t] = "done"

Outcomes == result.sample_results

OutcomeKeys == {sample_result_key(Outcomes[i]) : i \in DOMAIN Outcomes}

\* how many elements of a sequence satisfy a test
Count(seq, Test(_)) == Cardinality({i \in DOMAIN seq : Test(seq[i])})

Skipped(u) == UnitKey(config, u) \in skip_keys

Failed(sr) == ~NoError(sr)

-----------------------------------------------------------------------------
\* C1: in every reachable state of a run, the number of units inside the
\* model invocation (call_vision_model started, not yet returned) is at most
\* config.max_concurrency, and the semaphore's counter never goes below 0.
C1_ConcurrencyCap ==
    /\ Cardinality(InCall) <= config.max_concurrency
    /\ sem_value >= 0

\* C1 witness: the cap binds: as many calls in flight as the ceiling allows
\* (two of them), and a further unit queued at the semaphore.
C1_Witness ==
    /\ config.max_concurrency = 2
    /\ Cardinality(InCall) = 2
    /\ \E t \in DOMAIN tstate : tstate[t] = "waiting"

\* C2: with max_concurrency >= 1, if the loop keeps running and every model
\* invocation returns, run_benchmark returns and every task has completed
\* (so none waits at the semaphore forever).
C2_RunTerminates ==
    (config.max_concurrency >= 1) =>
        <>(RunReturned /\ AllTasksDone /\ Len(Outcomes) = Len(tasks))

\* C2 witness: a run with more tasks than permits has returned, all done.
C2_Witness ==
    /\ RunReturned
    /\ Len(tasks) > config.max_concurrency
    /\ config.max_concurrency >= 1
    /\ AllTasksDone
    /\ Len(Outcomes) = Len(tasks)

\* C3: the k-th call of on_result is shown exactly k outcomes, there are
\* never more calls than tasks, and once run_benchmark has returned there
\* were exactly as many calls as tasks: 1, 2, ..., N.
C3_CheckpointCounts ==
    /\ \A k \in DOMAIN checkpoints : checkpoints[k] = k
    /\ Len(checkpoints) <= Len(tasks)
    /\ RunReturned => Len(checkpoints) = Len(tasks)

\* C3 witness: a run of three tasks has returned after checkpoints 1, 2, 3.
C3_Witness == RunReturned /\ checkpoints = <<1, 2, 3>>

\* C4: a unit is never invoked twice in a run; a unit whose key is in the
\* skip-set is not invoked; once run_benchmark has returned every other unit
\* was invoked exactly once.
C4_InvokedOnceUnlessSkipped ==
    \A u \in UnitSet(config) :
        /\ invocations[u] <= 1
        /\ Skipped(u) => invocations[u] = 0
        /\ (RunReturned /\ ~Skipped(u)) => invocations[u] = 1

\* C4 witness: a returned run that skipped one unit and invoked another.
C4_Witness ==
    /\ RunReturned
    /\ \E u \in UnitSet(config) : Skipped(u) /\ invocations[u] = 0
    /\ \E u \in UnitSet(config) : ~Skipped(u) /\ invocations[u] = 1

\* C5: the result run_benchmark returns holds, for every key, as many
\* outcomes as there are enumerated units of that key outside the skip-set
\* (one per such unit), and nothing else: no outcome of a skipped key, and
\* not more outcomes than tasks, whatever rows the loaded document had.
C5_ReturnedOutcomes ==
    RunReturned =>
        /\ Len(Outcomes) = Count(Units(config), LAMBDA u : ~Skipped(u))
        /\ OutcomeKeys \cap skip_keys = {}
        /\ \A u \in UnitSet(config) :
              ~Skipped(u) =>
                 Count(Outcomes, LAMBDA sr : sample_result_key(sr) = UnitKey(config, u))
                 = Count(Units(config), LAMBDA v : UnitKey(config, v) = UnitKey(config, u))
        /\ \A i \in DOMAIN Outcomes :
              \E u \in UnitSet(config) :
                 ~Skipped(u) /\ sample_result_key(Outcomes[i]) = UnitKey(config, u)

\* C5 witness: a run resumed on a document with rows has returned: it skipped
\* a key and returned two outcomes.
C5_Witness ==
    /\ RunReturned
    /\ existing_data # NoneObj
    /\ skip_keys # {}
    /\ Len(Outcomes) = 2

\* Some task has ended with an error of the model.
SomeFailure ==
    \/ \E i \in DOMAIN ready : Failed(ready[i])
    \/ \E i \in DOMAIN Outcomes : Failed(Outcomes[i])

\* C6: a run that nothing interrupts from outside never ends aborted (exit
\* code 2), whatever the model invocations return; and once a model
\* invocation has returned an error, the run still goes on to return
\* normally, with every task invoked and done, a checkpoint fired for every
\* task, and the failed outcome among the outcomes.
C6_FailureDoesNotAbort ==
    /\ [](~Aborted)
    /\ SomeFailure ~>
          ( /\ RunReturned
            /\ AllTasksDone
            /\ \A u \in UnitSet(config) : ~Skipped(u) => invocations[u] = 1
            /\ Len(checkpoints) = Len(tasks)
            /\ \E i \in DOMAIN Outcomes : Failed(Outcomes[i]) )

\* C6 witness: a returned run of three tasks, one failed and one not, with
\* three checkpoints.
C6_Witness ==
    /\ RunReturned
    /\ Len(checkpoints) = 3
    /\ \E i \in DOMAIN Outcomes : Failed(Outcomes[i])
    /\ \E i \in DOMAIN Outcomes : ~Failed(Outcomes[i])

-----------------------------------------------------------------------------
(* Restarts.                                                                *)

\* The rows of the document the output path held before the first run.
InitialRows ==
    IF initial_file.exists
    THEN {initial_file.data.results[i] : i \in DOMAIN initial_file.data.results}
    ELSE {}

\* The rows of the document this run loaded.
LoadedRows ==
    IF existing_data = NoneObj THEN {}
    ELSE {existing_data.results[i] : i \in DOMAIN existing_data.results}

\* The loaded rows that carry the key of a unit.
RowsOf(u) == {row \in LoadedRows : _row_key(row) = UnitKey(config, u)}

\* A row an earlier run of this process persisted from a model call that
\* returned without an error.
PersistedFromSuccessfulCall(row) ==
    row \notin InitialRows /\ NoError(row)

\* A row that counts as completed: no non-empty error, an output that is
\* not blank and holds none of the error signatures.
CompletedRow(row) ==
    /\ IsNoneText(row.error) \/ Strip(row.error) = <<>>
    /\ ~IsNoneText(row.model_output)
    /\ Strip(row.model_output) # <<>>
    /\ \A marker \in ErrorMarkers :
          ~Contains(LowerText(Strip(row.model_output)), marker)

-----------------------------------------------------------------------------
(* Persistence.                                                             *)

\* C8: the output path never holds a partially written document; it changes
\* in one step only, the rename of a completely written temporary file; and
\* when write_results fails or the process dies at any point of a write
\* (the temporary file opened, dumped, not yet renamed) the output path
\* holds what it held before.
C8_AtomicPersistence ==
    /\ [](out_file.exists => out_file.complete)
    /\ [][ out_file' # out_file =>
              /\ wpc = "replace"
              /\ tmp_file.exists /\ tmp_file.complete
              /\ out_file' = tmp_file ]_vars
    /\ [][ (wpc # "idle" /\ Aborted') => out_file' = out_file ]_vars

\* C8 witness: the run has died after the temporary file was written and
\* before the rename: the temporary file holds the new document, the output
\* path still the document from before the run.
C8_Witness ==
    /\ Aborted
    /\ tmp_file.exists /\ tmp_file.complete
    /\ initial_file.exists
    /\ out_file = initial_file
    /\ tmp_file # out_file

\* The file the output path held when this run loaded it.
PreRunFile == IF existing_data = NoneObj THEN NoFile ELSE CompleteFile(existing_data)

\* The file that holds the pre-run document merged with the first k outcomes
\* of this run.
DocOfFirst(k, elapsed) ==
    LET first == recompute_summaries(
                     [result EXCEPT !.sample_results = SubSeq(@, 1, k),
                                    !.total_duration_seconds = elapsed])
    IN  CompleteFile(IF existing_data # NoneObj
                     THEN _merge_existing_results(_build_json(first), existing_data)
                     ELSE _build_json(first))

\* What the output path holds once k checkpoints have returned.
HeldAfter(k) == IF k = 0 THEN PreRunFile ELSE DocOfFirst(k, 0)

\* C9: in a run driven by main, after the k-th checkpoint has returned the
\* output path holds exactly the pre-run document merged with the first k
\* outcomes; while the k-th checkpoint (or the final write) is writing, it
\* still holds the state after k-1 (or after all) checkpoints; checkpoints
\* never run ahead of the outcomes; after the final write it holds the merge
\* with all outcomes; and the step in which the run is interrupted or fails
\* leaves the output path as it is.
C9_CheckpointedPrefix ==
    /\ []( /\ Len(checkpoints) <= Len(Outcomes)
           /\ (pc = "running" /\ wpc = "idle") => out_file = HeldAfter(Len(checkpoints))
           /\ (pc = "running" /\ wpc # "idle") => out_file = HeldAfter(Len(checkpoints) - 1)
           /\ pc = "finalizing" => out_file = HeldAfter(Len(tasks))
           /\ (pc = "exited" /\ exit_code = 0) =>
                 out_file = IF tasks = <<>> THEN PreRunFile
                            ELSE DocOfFirst(Len(tasks), result.total_duration_seconds) )
    /\ [][Aborted' => out_file' = out_file]_vars

\* C9 witness: a run on a document of earlier runs is interrupted after its
\* second outcome was appended and before that checkpoint has renamed its
\* file: the output path holds the merge with the first outcome only.
C9_Witness ==
    /\ pc = "running"
    /\ existing_data # NoneObj
    /\ Len(Outcomes) = 2
    /\ wpc = "replace"
    /\ out_file = DocOfFirst(1, 0)
    /\ out_file # PreRunFile
    /\ out_file # tmp_file

\* The keys the rows of a sequence yield.
KeysOf(rows) == {_row_key(rows[i]) : i \in DOMAIN rows} \ {NoKey}

\* The positions of the rows with key K.
Having(rows, K) == {i \in DOMAIN rows : _row_key(rows[i]) = K}

Max(S) == CHOOSE x \in S : \A y \in S : x >= y

\* C10: whenever write_results merges with an existing document, for every
\* identity key K the merged document has exactly one row with key K: the
\* new run's row if the new run has one (the last, where it has several),
\* otherwise the existing document's row; and it has rows of no other key.
C10_NewRowReplaces ==
    (wpc # "idle" /\ existing_data # NoneObj) =>
        LET new_rows == _build_json(result).results
            old_rows == existing_data.results
            merged == wdata.results
        IN  /\ KeysOf(merged) = KeysOf(old_rows) \cup KeysOf(new_rows)
            /\ \A K \in KeysOf(merged) :
                  /\ Cardinality(Having(merged, K)) = 1
                  /\ \A i \in Having(merged, K) :
                        merged[i] = IF K \in KeysOf(new_rows)
                                    THEN new_rows[Max(Having(new_rows, K))]
                                    ELSE old_rows[Max(Having(old_rows, K))]

\* C10 witness: one merge with a key whose existing row the new run's row
\* replaces, a key only the existing document has, and a key only the new
\* run has.
C10_Witness ==
    /\ wpc # "idle"
    /\ existing_data # NoneObj
    /\ LET new_rows == _build_json(result).results
           old_rows == existing_data.results
       IN  /\ \E K \in KeysOf(new_rows) \cap KeysOf(old_rows) :
                 new_rows[Max(Having(new_rows, K))] # old_rows[Max(Having(old_rows, K))]
           /\ KeysOf(old_rows) \ KeysOf(new_rows) # {}
           /\ KeysOf(new_rows) \ KeysOf(old_rows) # {}

-----------------------------------------------------------------------------
(* The merged document.                                                     *)

\* No two rows of the sequence yield the same identity key.
DistinctKeys(rows) ==
    \A i, j \in DOMAIN rows :
        (i # j /\ _row_key(rows[i]) # NoKey) => _row_key(rows[i]) # _row_key(rows[j])

\* C11: every document write_results has put at the output path (at a
\* checkpoint or at the end, with or without a document from before)
\* contains no two rows that yield the same identity key.
C11_NoDuplicateKeys ==
    (out_file.exists /\ out_file.complete) => DistinctKeys(out_file.data.results)

\* The same rows, each as many times.
SameRows(a, b) ==
    /\ Len(a) = Len(b)
    /\ \A i \in DOMAIN a :
           Count(a, LAMBDA row : row = a[i]) = Count(b, LAMBDA row : row = a[i])

\* C12: for any existing document and any output of a new run, merging the
\* output into the document and then merging it again into the result
\* yields the same rows, each as many times, as merging it once.
C12_MergeIdempotent ==
    pc = "merged_again" => SameRows(wdata.results, existing_data.results)

\* The rows _build_json makes of the new run's outcomes.
NewRows == _build_json(result).results

\* C13: every row of the existing document whose identity key the new run
\* does not produce is in the merged document unchanged, and the merged
\* model_summaries has an entry for every model label a merged row carries,
\* the labels only the existing document contributes included.
C13_UntouchedHistory ==
    pc = "merged" =>
        /\ \A i \in DOMAIN existing_data.results :
               _row_key(existing_data.results[i]) \notin KeysOf(NewRows)
                   => \E j \in DOMAIN wdata.results :
                          wdata.results[j] = existing_data.results[i]
        /\ \A j \in DOMAIN wdata.results :
               wdata.results[j].model # None
                   => wdata.results[j].model \in DOMAIN wdata.model_summaries

\* The merged rows of model L, and the sum of one number of each.
RowsOfModel(rows, L) == {i \in DOMAIN rows : rows[i].model = L}

InputTokensOf(rows, L) ==
    Sum([i \in 1..Len(rows) |->
            IF i \in RowsOfModel(rows, L) THEN rows[i].response_metadata.input_tokens
            ELSE 0])

OutputTokensOf(rows, L) ==
    Sum([i \in 1..Len(rows) |->
            IF i \in RowsOfModel(rows, L) THEN rows[i].response_metadata.output_tokens
            ELSE 0])

\* C14: after a merge the model summaries are a function of the merged rows
\* alone: for every model label L, samples_evaluated is the number of merged
\* rows of L with a metrics block, samples_failed the number with a
\* non-empty error, and the token totals the sums over the merged rows of L,
\* whatever summaries the existing document and the new run carried.
C14_ModelSummariesFromMergedRows ==
    pc \in {"merged", "merged_again"} =>
        \A L \in (DOMAIN wdata.model_summaries
                  \cup {wdata.results[i].model : i \in DOMAIN wdata.results}) \ {None} :
            /\ L \in DOMAIN wdata.model_summaries
            /\ wdata.model_summaries[L].samples_evaluated =
                   Cardinality({i \in RowsOfModel(wdata.results, L) :
                                   wdata.results[i].metrics # NoneObj})
            /\ wdata.model_summaries[L].samples_failed =
                   Cardinality({i \in RowsOfModel(wdata.results, L) :
                                   /\ ~IsNoneText(wdata.results[i].error)
                                   /\ Strip(wdata.results[i].error) # <<>>})
            /\ wdata.model_summaries[L].total_input_tokens =
                   InputTokensOf(wdata.results, L)
            /\ wdata.model_summaries[L].total_output_tokens =
                   OutputTokensOf(wdata.results, L)
            /\ wdata.model_summaries[L].total_tokens =
                   InputTokensOf(wdata.results, L) + OutputTokensOf(wdata.results, L)

\* Merged: a model has a scored row and a failed row, one of them from the
\* existing document, and its merged summary is neither the new run's nor
\* the existing document's.
C14_Witness ==
    /\ pc = "merged"
    /\ \E L \in (DOMAIN wdata.model_summaries) \cap (DOMAIN result.model_summaries)
                 \cap (DOMAIN existing_data.model_summaries) :
           /\ wdata.model_summaries[L].samples_evaluated >= 1
           /\ wdata.model_summaries[L].samples_failed >= 1
           /\ \E i \in RowsOfModel(wdata.results, L) : wdata.results[i] \in HistoryRows
           /\ wdata.model_summaries[L] # result.model_summaries[L]
           /\ wdata.model_summaries[L] # existing_data.model_summaries[L]

\* C15: after a merge, for every pair of a model and a group with at least
\* one scored merged row, the group summary of the merged document is the
\* one recomputed from the merged rows of that pair, the rows of earlier
\* runs included.
C15_GroupSummariesFromMergedRows ==
    pc = "merged" =>
        \A i \in DOMAIN wdata.results :
            (/\ wdata.results[i].metrics # NoneObj
             /\ wdata.results[i].model # None
             /\ wdata.results[i].group # None)
            => /\ wdata.results[i].model \in DOMAIN wdata.group_summaries
               /\ wdata.results[i].group
                      \in DOMAIN wdata.group_summaries[wdata.results[i].model]
               /\ wdata.group_summaries[wdata.results[i].model][wdata.results[i].group]
                      = _recompute_group_summaries(wdata.results)
                            [wdata.results[i].model][wdata.results[i].group]

\* The existing rows followed by the new run's rows, as the merge reads them.
AllRows == existing_data.results \o NewRows

\* Where a key first appears.
FirstAppearance(rows, K) == CHOOSE i \in Having(rows, K) : \A j \in Having(rows, K) : i <= j

\* C16: in the merged document the rows that yield no identity key come
\* first, those of the existing document and then those of the new run,
\* each as it was and none dropped; the keyed rows follow, one per key, in
\* the order in which the keys first appear (existing rows in persisted
\* order, then the new run's new keys in its order), so that a replacing row
\* stands where the row it replaces would.
C16_RowOrder ==
    pc = "merged" =>
        LET passthrough == PassthroughRows(existing_data.results) \o PassthroughRows(NewRows)
            p == Len(passthrough)
            n == Len(wdata.results)
        IN  /\ n = p + Cardinality(KeysOf(AllRows))
            /\ SubSeq(wdata.results, 1, p) = passthrough
            /\ \A j \in (p + 1)..n :
                   /\ _row_key(wdata.results[j]) \in KeysOf(AllRows)
                   /\ wdata.results[j]
                          = AllRows[Max(Having(AllRows, _row_key(wdata.results[j])))]
            /\ \A j, k \in (p + 1)..n :
                   j < k => FirstAppearance(AllRows, _row_key(wdata.results[j]))
                                < FirstAppearance(AllRows, _row_key(wdata.results[k]))

\* Merged: the existing document's keyless row, stored second, comes first;
\* the new run's row stands in the place of the existing row it replaces,
\* and the row of the new run's new key is last.
C16_Witness ==
    /\ pc = "merged"
    /\ Len(existing_data.results) = 2
    /\ Len(wdata.results) = 3
    /\ _row_key(existing_data.results[1]) # NoKey
    /\ wdata.results[1] = existing_data.results[2]
    /\ _row_key(wdata.results[1]) = NoKey
    /\ wdata.results[2] # existing_data.results[1]
    /\ _row_key(wdata.results[2]) = _row_key(existing_data.results[1])
    /\ _row_key(wdata.results[3]) \notin KeysOf(existing_data.results)

\* The labels of a list of model configurations.
LabelsOf(models) == {models[i].label : i \in DOMAIN models}

CompletedForResume(row) ==
    /\ IsNoneText(row.error) \/ row.error = <<>>
    /\ ~IsNoneText(row.model_output)
    /\ \E i \in DOMAIN row.model_output : ~IsSpace(row.model_output[i])
    /\ \A marker \in ErrorMarkers : ~Contains(LowerText(row.model_output), marker)

\* C18: completed_result_keys includes the key of a row if and only if the
\* row yields an identity key, has no non-empty error string, has a
\* non-blank model_output string, and the output contains no error
\* signature, compared case-insensitively; a row with empty error and an
\* error signature as output is excluded.
C18_CompletedKeys ==
    pc = "derived_unfiltered" =>
        \A i \in DOMAIN existing_data.results :
            (/\ _row_key(existing_data.results[i]) # NoKey
             /\ _row_key(existing_data.results[i]) \in skip_keys)
            <=> (/\ _row_key(existing_data.results[i]) # NoKey
                 /\ CompletedForResume(existing_data.results[i]))

\* The positions of the completed rows of a document whose model label is
\* in S.
CompletedOf(data, S) ==
    {i \in DOMAIN data.results :
        /\ _row_key(data.results[i]) # NoKey
        /\ CompletedForResume(data.results[i])
        /\ data.results[i].model \in S}

\* C19: for any document and any non-empty set S of model labels,
\* completed_result_keys filtered to S returns exactly the keys of the
\* completed rows whose model label is in S: N completed rows of model M
\* give N keys when S = {M}, and no key when no row of a model of S is
\* completed, whatever rows there are for other models.
C19_FilteredByModel ==
    pc = "derived" =>
        LET S == ModelLabels(config)
            done == CompletedOf(existing_data, S)
        IN  /\ skip_keys = {_row_key(existing_data.results[i]) : i \in done}
            /\ Cardinality(S) = 1 => Cardinality(skip_keys) = Cardinality(done)
            /\ done = {} => skip_keys = {}

\* C20: for every outcome of run_benchmark, the identity key _row_key
\* derives from the row _build_json makes of it is the key make_result_key
\* gives for its configuration unit (and for the outcome itself), the
\* sample label being absent or empty included.
C20_RowKeyIsUnitKey ==
    \A i \in DOMAIN result.sample_results :
        /\ _row_key(NewRows[i]) = UnitKey(config, BuildTasks(config, {})[i].unit)
        /\ _row_key(NewRows[i]) = sample_result_key(result.sample_results[i])

\* The rows the pass is to skip: a non-empty error, a blank or missing
\* output, a missing ground-truth path or a missing ground-truth file.
ToSkip(row) ==
    \/ ~IsNoneText(row.error) /\ Strip(row.error) # <<>>
    \/ IsNoneText(row.model_output) \/ Strip(row.model_output) = <<>>
    \/ row.ground_truth_file \in {None, "", " "}
    \/ ~Exists(row.ground_truth_file)

\* What the pass made of the rows of the document at the output path, when
\* it returned.
RowsClassified ==
    pc = "recomputed" =>
        LET before == initial_file.data.results
            after == existing_data.results
            skipped == {i \in DOMAIN before : ToSkip(before[i])}
        IN  /\ DOMAIN after = DOMAIN before
            /\ \A i \in skipped : after[i] = [before[i] EXCEPT !.metrics = NoneObj]
            /\ \A i \in (DOMAIN before) \ skipped :
                   after[i] =
                       [before[i] EXCEPT
                           !.metrics = compute_metrics(
                               read_text(before[i].ground_truth_file),
                               before[i].model_output),
                           !.ground_truth_text = normalize_for_comparison(
                               read_text(before[i].ground_truth_file))]
            /\ counts = << Cardinality((DOMAIN before) \ skipped), Cardinality(skipped) >>
            /\ counts[1] + counts[2] = Len(before)

\* C21: recompute_comparisons classifies every row as exactly one of skipped
\* or recomputed and never aborts: a row is skipped, its metrics set to
\* null, if and only if it has a non-empty error, a blank or missing output,
\* or a missing ground-truth path or file; every other row gets freshly
\* computed metrics and an updated ground_truth_text; the returned pair
\* (recomputed, skipped) sums to the number of rows.
C21_RecomputeClassifies == pc # "raised" /\ RowsClassified

\* C22: when the driver is run in recompute mode and an existing document
\* was loaded, the pass runs to completion without invoking any model, the
\* updated document replaces the file at the output path (no temporary file
\* is left), the recomputed and skipped counts are reported and the process
\* ends with exit status 0.
C22_RecomputeModeCompletes ==
    (pc = "exited" /\ existing_data # NoneObj) =>
        /\ exit_code = 0
        /\ counts # None
        /\ out_file = CompleteFile(existing_data)
        /\ out_file.data = recompute_comparisons(initial_file.data).data
        /\ tmp_file = NoFile
        /\ \A u \in DOMAIN invocations : invocations[u] = 0

\* The display label of a [[models]] entry: its label, or its id when the
\* label is omitted.
DisplayLabel(m) == IF "label" \in DOMAIN m THEN m.label ELSE m.id

\* C23: load_config rejects with ConfigError any configuration in which two
\* models have the same display label (an omitted label defaulting to the
\* model id), so every configuration that reaches the scheduler has
\* pairwise distinct model labels.
C23_DistinctModelLabels ==
    /\ (/\ pc # "start"
        /\ \E i, j \in DOMAIN raw.models :
              /\ i # j
              /\ "id" \in DOMAIN raw.models[i] /\ "id" \in DOMAIN raw.models[j]
              /\ DisplayLabel(raw.models[i]) = DisplayLabel(raw.models[j]))
       => (pc = "exited" /\ exit_code = 1)
    /\ pc = "configured" =>
           \A i, j \in DOMAIN config.models :
               i # j => config.models[i].label # config.models[j].label

\* C23 witness: a configuration of two models of different ids, the label of
\* the first omitted and the label of the second equal to the first's id,
\* has been rejected.
C23_Witness ==
    /\ pc = "exited"
    /\ Len(raw.models) = 2
    /\ raw.models[1] = [id |-> "provider/m1"]
    /\ raw.models[2] = [id |-> "provider/m2", label |-> "provider/m1"]
    /\ load_config([raw EXCEPT !.models = <<raw.models[1]>>]) # ConfigError

\* C24: fetch_iiif_image is a cache keyed by (info URL, side): a later call
\* with the URL and side of a call that returned returns the same path and
\* makes no network request, while calls with the same URL and different
\* sides (verso, recto, none) return pairwise distinct paths (and so do
\* calls with different URLs).
C24_CacheKeyedByUrlAndSide ==
    \A i, j \in DOMAIN fetched :
        (i < j /\ ~fetched[i].raised /\ ~fetched[j].raised) =>
            IF /\ fetched[i].info_url = fetched[j].info_url
               /\ fetched[i].side = fetched[j].side
            THEN fetched[j].path = fetched[i].path /\ fetched[j].requests = 0
            ELSE fetched[j].path # fetched[i].path

\* C24 witness: the verso of an image was fetched over the network, fetched
\* again without any request, and then the whole image was fetched.
C24_Witness ==
    /\ Len(fetched) = 3
    /\ \A k \in 1..3 : fetched[k].info_url = UrlA /\ ~fetched[k].raised
    /\ fetched[1].side = "verso" /\ fetched[1].requests = 2
    /\ fetched[2].side = "verso" /\ fetched[2].requests = 0
    /\ fetched[3].side = None /\ fetched[3].requests = 2

\* The outcomes of the run so far that are of the model with this label.
OutcomesOf(label) == SelectSeq(Outcomes, LAMBDA sr : sr.model_id = label)

\* The in-memory summary of the model agrees with the outcomes present.
SummaryAgrees(label) ==
    /\ label \in DOMAIN result.model_summaries
    /\ LET summary == result.model_summaries[label]
           mine == OutcomesOf(label)
       IN  /\ summary.samples_evaluated = Count(mine, LAMBDA sr : sr.metrics # NoneObj)
           /\ summary.samples_failed = Count(mine, Failed)
           /\ summary.samples_evaluated + summary.samples_failed = Len(mine)
           /\ summary.total_tokens = Sum([i \in DOMAIN mine |-> mine[i].total_tokens])

\* A checkpoint (or the final write) is under way.
InCheckpoint == wpc # "idle"

\* C25: at every checkpoint invocation and at return of run_benchmark the
\* in-memory summaries agree with exactly the outcomes present: for every
\* configured model, samples_evaluated is the number of that model's
\* outcomes carrying metrics, samples_failed the number carrying an error,
\* their sum the number of that model's outcomes, and total_tokens the sum
\* over those outcomes.
C25_SummariesConsistent ==
    (InCheckpoint \/ RunReturned) =>
        \A label \in ModelLabels(config) : SummaryAgrees(label)

\* C26: at most one checkpoint is in progress at any time; while a
\* checkpoint callback is in progress (an awaitable callback that is
\* suspended included) no outcome is appended and no summary recomputed,
\* even if other units finish their model invocation in the meantime; and
\* what a checkpoint observes is exactly the outcomes up to and including
\* the completion that triggered it: the k-th checkpoint the first k.
C26_OneCheckpointAtATime ==
    /\ [](callbacks <= 1)
    /\ [](callbacks > 0 =>
            /\ Len(Outcomes) = Len(checkpoints)
            /\ checkpoints[Len(checkpoints)] = Len(Outcomes))
    /\ [][callbacks > 0 => result' = result]_vars
    /\ [][\A k \in DOMAIN Outcomes : k \in DOMAIN Outcomes' /\ Outcomes'[k] = Outcomes[k]]_vars
    /\ [][Len(Outcomes') > Len(Outcomes) =>
            /\ ready # <<>>
            /\ Outcomes' = Append(Outcomes, Head(ready))
            /\ checkpoints' = Append(checkpoints, Len(Outcomes'))]_vars

\* C26 witness: the first checkpoint is in progress, it was shown one
\* outcome, and the two other units have finished their model invocation.
C26_Witness ==
    /\ callbacks = 1
    /\ checkpoints = <<1>>
    /\ Len(Outcomes) = 1
    /\ Len(ready) = 2

\* C27: under any interleaving of the N units of a run, the started numbers
\* handed to the units are exactly 1..N, none skipped or repeated, and so
\* are the completed numbers; at every instant completed <= started <= N.
C27_CountersExact ==
    pc \in {"running", "finalizing"} =>
        /\ Len(numbers.started) = started
        /\ Len(numbers.done) = completed
        /\ \A k \in DOMAIN numbers.started : numbers.started[k] = k
        /\ \A k \in DOMAIN numbers.done : numbers.done[k] = k
        /\ completed <= started /\ started <= Len(tasks)
        /\ AllTasksDone => (started = Len(tasks) /\ completed = Len(tasks))

\* C27 witness: three units ran two at a time; all three have been handed
\* their numbers.
C27_Witness ==
    /\ pc = "running"
    /\ config.max_concurrency = 2
    /\ numbers = [started |-> <<1, 2, 3>>, done |-> <<1, 2, 3>>]

\* Every outcome the tasks have produced: those the loop has appended and
\* those of finished tasks it has not yet taken.
Produced == Outcomes \o ready

\* C28: every outcome produced by run_benchmark carries a metrics block if
\* and only if its model response carried no error: an outcome with a
\* non-empty error has no metrics, an outcome without error always has.
C28_MetricsIffNoError ==
    \A k \in DOMAIN Produced :
        /\ Produced[k].metrics # NoneObj <=> IsNoneText(Produced[k].error)
        /\ (~IsNoneText(Produced[k].error) /\ Produced[k].error # <<>>)
               => Produced[k].metrics = NoneObj

\* C28 witness: a run has returned whose outcomes are one of a response with
\* an error, without metrics, and one of a response without, with metrics.
C28_Witness ==
    /\ RunReturned
    /\ \E k \in DOMAIN Outcomes :
           Outcomes[k].error = <<"E", "r", "r">> /\ Outcomes[k].metrics = NoneObj
    /\ \E k \in DOMAIN Outcomes :
           IsNoneText(Outcomes[k].error) /\ Outcomes[k].metrics # NoneObj

\* The position of key K among the keys of a document's rows, in the order
\* in which the merge keeps the rows that have a key (the rows without key
\* come before them all).
KeyRank(rows, K) ==
    Cardinality({L \in KeysOf(rows) :
                    FirstAppearance(rows, L) < FirstAppearance(rows, K)})

\* The document at the output path has one row of key K, where the loaded
\* document had its rows of that key, and it is the row of an outcome of
\* this run.
ReplacedInPlace(K) ==
    /\ Cardinality(Having(out_file.data.results, K)) = 1
    /\ KeyRank(out_file.data.results, K) = KeyRank(existing_data.results, K)
    /\ \E k \in DOMAIN Outcomes :
           /\ sample_result_key(Outcomes[k]) = K
           /\ \A i \in Having(out_file.data.results, K) :
                  out_file.data.results[i] = ResultEntry(Outcomes[k])

\* C29: a unit whose persisted row records a non-empty error is not in the
\* skip-set of the next run, is invoked again by that run (once, if the run
\* returns), and when the run has ended its new outcome stands in the
\* document in the place of the failed row, the document still holding
\* exactly one row of that key.
C29_FailedUnitRetried ==
    \A u \in UnitSet(config) :
        (\E row \in RowsOf(u) : HasError(row)) =>
            /\ UnitKey(config, u) \notin skip_keys
            /\ RunReturned => invocations[u] = 1
            /\ (pc = "exited" /\ exit_code = 0) => ReplacedInPlace(UnitKey(config, u))

\* A sample of the configuration has a unit that is not skipped and a
\* ground-truth file that cannot be read.
UnreadableToRun ==
    \E u \in UnitSet(config) :
        /\ UnitKey(config, u) \notin skip_keys
        /\ ReadRaises(UnitSample(config, u).ground_truth)

\* C30: if the ground-truth file of a sample with at least one unit that is
\* not skipped cannot be read, run_benchmark raises before any model
\* invocation has started (main returns 2), no checkpoint is fired and the
\* document at the output path is left as it was.
C30_UnreadableGroundTruthIsFatal ==
    [][(pc = "loaded" /\ UnreadableToRun) =>
          /\ pc' = "exited" /\ exit_code' = 2
          /\ tstate' = <<>> /\ started' = 0
          /\ \A u \in UnitSet(config) : invocations[u] = 0 /\ invocations'[u] = 0
          /\ checkpoints = <<>> /\ checkpoints' = <<>>
          /\ wpc' = "idle" /\ tmp_file' = NoFile
          /\ out_file' = out_file /\ out_file' = initial_file]_vars

\* C30 witness: a run on a document of earlier runs, with a readable sample
\* first and an unreadable one after it, has ended with status 2, the
\* document untouched and no model invoked.
C30_Witness ==
    /\ pc = "exited" /\ exit_code = 2
    /\ config.groups[1].samples = <<SampleA, SampleUnreadable>>
    /\ initial_file # NoFile /\ out_file = initial_file
    /\ \A u \in UnitSet(config) : invocations[u] = 0
    /\ checkpoints = <<>>
    /\ result.sample_results = <<>>

-----------------------------------------------------------------------------
(* Failures around the run.                                                 *)

\* A step in which a write under way ends without its rename.
PersistFails ==
    /\ wpc # "idle"
    /\ wpc' = "idle"
    /\ wpc = "replace" => tmp_file' # NoFile

\* C31: when persisting fails during the k-th checkpoint the run ends there:
\* main returns a nonzero status in that very step, the output path holds
\* and keeps the document of checkpoint k-1 (the pre-run file when k = 1),
\* and once main has returned nothing is written any more and no checkpoint
\* is made.
C31_CheckpointFailureIsFatal ==
    /\ [][ (pc = "running" /\ PersistFails) =>
              /\ pc' = "exited"
              /\ exit_code' # 0
              /\ out_file' = out_file
              /\ out_file = HeldAfter(Len(checkpoints) - 1) ]_vars
    /\ [][ pc = "exited" => UNCHANGED << out_file, tmp_file, wpc, checkpoints >> ]_vars

\* C31 witness: a first run without earlier document has ended with status 2
\* in a write that had opened its temporary file, after an earlier
\* checkpoint: the output path holds that checkpoint's document.
C31_Witness ==
    /\ Aborted
    /\ ~initial_file.exists
    /\ tmp_file.exists
    /\ out_file.exists
    /\ wpc = "idle"

\* The file at the output path exists and json.load cannot decode it.
Undecodable(file) == file.exists /\ ~file.complete

\* C32: when the output path holds a file that cannot be decoded, main ends
\* in its loading step with a nonzero status, before anything is scheduled:
\* no task is made, no model is invoked, no checkpoint is made, and neither
\* the output path nor its temporary file is written, then or later.
C32_UndecodableOutputIsFatal ==
    /\ [][ (pc = "boot" /\ Undecodable(out_file)) =>
              /\ pc' = "exited"
              /\ exit_code' # 0
              /\ UNCHANGED << out_file, tmp_file, tasks, invocations, checkpoints >> ]_vars
    /\ []( Undecodable(initial_file) =>
              /\ out_file = initial_file
              /\ tmp_file = NoFile
              /\ tasks = <<>>
              /\ checkpoints = <<>>
              /\ \A u \in UnitSet(config) : invocations[u] = 0
              /\ pc \in {"boot", "exited"} )

\* C32 witness: main has returned 1 on an output path that holds an
\* undecodable file, which is still there.
C32_Witness ==
    /\ pc = "exited"
    /\ exit_code = 1
    /\ Undecodable(initial_file)
    /\ out_file = PartialFile
    /\ existing_data = NoneObj

\* What failed in the call, if encoding or the provider call failed: the
\* exception of _encode_image, or that of acompletion once encoding went well.
FailureOf(call) ==
    IF call.encoded.raises THEN call.encoded
    ELSE IF call.provider.raises THEN call.provider
    ELSE NoneObj

EncodingOrProviderFails(call) ==
    FailureOf(call) # NoneObj /\ FailureOf(call).is_exception

\* C33: a call of call_vision_model in which encoding the image or calling
\* the provider fails with an exception does not raise: it returns a
\* response whose error is a non-empty string and whose text is empty and
\* token counts, cost and latency are zero.
C33_VisionNeverRaises ==
    (pc \in {"called", "raised"} /\ EncodingOrProviderFails(vision)) =>
        /\ pc = "called"
        /\ ~vision.raised
        /\ ~IsNoneText(vision.response.error)
        /\ Len(vision.response.error) > 0
        /\ vision.response.text = <<>>
        /\ vision.response.input_tokens = 0
        /\ vision.response.output_tokens = 0
        /\ vision.response.total_tokens = 0
        /\ vision.response.cost = 0
        /\ vision.response.latency_seconds = 0

\* C33 witness: the provider call has failed after a second with an
\* exception that has no message; the call returned the exception's name as
\* the error.
C33_Witness ==
    /\ pc = "called"
    /\ ~vision.encoded.raises
    /\ vision.provider.raises
    /\ vision.provider.message = <<>>
    /\ vision.latency = 1
    /\ vision.response.error = <<"T", "i", "m", "e", "o", "u", "t", ":", " ">>

-----------------------------------------------------------------------------
(* Runs with nothing to do.                                                 *)

\* Every configured unit's key is in the skip-set main handed over.
AllSkipped == \A u \in UnitSet(config) : UnitKey(config, u) \in skip_keys

\* C34: when every configured unit's key is in the skip-set, run_benchmark
\* returns a result without outcomes and main returns 0 in the same step;
\* in the whole run no model is invoked, no checkpoint is made and nothing
\* is written: the output path holds what it held when the run loaded it.
C34_NothingToRun ==
    /\ [][ (pc = "loaded" /\ AllSkipped) =>
              /\ pc' = "exited"
              /\ exit_code' = 0
              /\ result'.sample_results = <<>> ]_vars
    /\ [][ (pc # "boot" /\ AllSkipped) =>
              UNCHANGED << out_file, tmp_file, wpc, checkpoints, invocations >> ]_vars
    /\ []( (pc # "boot" /\ AllSkipped) =>
              /\ \A u \in UnitSet(config) : invocations[u] = 0
              /\ checkpoints = <<>>
              /\ wpc = "idle"
              /\ out_file = PreRunFile )

-----------------------------------------------------------------------------
(* The baseline of the merge.                                               *)

\* The document main loaded at the start of the run, as the file held it.
Baseline == load_results(initial_file)

-----------------------------------------------------------------------------
(* Convergence of resume.                                                   *)

\* The skip-set main would derive from what the output path holds now.
SkipSetOfFile ==
    IF out_file.exists /\ out_file.complete
    THEN completed_result_keys(out_file.data, ModelLabels(config))
    ELSE {}

\* Every configured unit's key is in it.
Converged == \A u \in UnitSet(config) : UnitKey(config, u) \in SkipSetOfFile

\* The row of this outcome is one resume takes for completed.
CompletedOutcome(sr) == CompletedRow(ResultEntry(sr))

-----------------------------------------------------------------------------
(* Rows of earlier runs in a resumed run.                                   *)

\* The rows of the document at the output path.
PersistedRows ==
    IF out_file.exists /\ out_file.complete
    THEN {out_file.data.results[i] : i \in DOMAIN out_file.data.results}
    ELSE {}

\* The outcomes of this run that record an error, carry the key of the row
\* and are rows of the document at the output path.
PersistedFailuresOf(row) ==
    { i \in DOMAIN Outcomes :
        /\ Failed(Outcomes[i])
        /\ sample_result_key(Outcomes[i]) = _row_key(row)
        /\ ResultEntry(Outcomes[i]) \in PersistedRows }

-----------------------------------------------------------------------------
(* The two paths of write_results.                                          *)

\* The existing document has no row of the model.
NoRowsOf(L) ==
    \A i \in DOMAIN existing_data.results : existing_data.results[i].model # L

\* C38: for a configured model of which the existing document has no row,
\* the model summary write_results persists through the merge is the one it
\* persists for the same run state when there is no existing document, in
\* every field, total_tokens included.
C38_SummaryPathsAgree ==
    pc = "merged" =>
        \A L \in ModelLabels(config) :
            NoRowsOf(L) =>
                /\ L \in DOMAIN wdata.model_summaries
                /\ wdata.model_summaries[L] =
                       WriteResultsData(result, NoneObj).model_summaries[L]

-----------------------------------------------------------------------------
(* Ground truth of skipped samples.                                         *)

\* The samples all of whose units are in the skip-set.
SamplesAllSkipped ==
    { u \in UnitSet(config) :
        \A other \in UnitSet(config) :
            (other.g = u.g /\ other.s = u.s) => UnitKey(config, other) \in skip_keys }

\* C39: the enumeration reads the ground truth of a sample only if one of
\* its units is not skipped: when every sample whose ground truth cannot be
\* read has all its units in the skip-set, the run is not aborted by the
\* enumeration, which returns without outcomes (nothing to run) or starts
\* the tasks.
C39_SkippedSampleIsNotRead ==
    [][ ( /\ pc = "loaded"
          /\ \A u \in UnitSet(config) :
                ReadRaises(UnitSample(config, u).ground_truth)
                    => u \in SamplesAllSkipped )
        => ( \/ pc' = "running"
             \/ pc' = "exited" /\ exit_code' = 0 ) ]_vars

-----------------------------------------------------------------------------
(* The concurrency ceiling.                                                 *)

\* C40: the configuration load_config returns has a concurrency ceiling of
\* at least 1, which is what the semaphore of run_benchmark starts with.
C40_CeilingAtLeastOne ==
    pc = "configured" => config.max_concurrency >= 1

====
